---- MODULE Spec2Model ----
(***************************************************************************)
(* Drop state synchronisation of the Fireball drop front-end:              *)
(* DropDetailPage (fetchAndSetDropInfo, the event subscriptions, joinDrop  *)
(* and selectWinnersManually) running against the remote drop contract.    *)
(***************************************************************************)
EXTENDS Integers, Sequences, FiniteSets, Bags, TLC

\* ---------------------------------------------------------------- bounds
MaxCalls == 2        \* fetchFarcasterProfiles calls that can be in flight together
MaxFetches == 2          \* fetchAndSetDropInfo calls in flight at one time
MaxP == 2                \* maxParticipants of the viewed drop
MaxEvents == 1           \* events waiting to be delivered to the page

\* ------------------------------------------------------------- addresses
ZERO == "0x0"
HostAddr == "0xH"        \* checksummed forms, as the contract reads return
UserAddr == "0xU"
OtherAddr == "0xO"
TokenAddr == "0xT"

\* viem getAddress: the checksummed form of an address given in any case
getAddress(a) ==
  CASE a = "0xh" -> HostAddr
    [] a = "0xu" -> UserAddr
    [] a = "0xo" -> OtherAddr
    [] OTHER -> a

ViewId == 1              \* the dropId route parameter
OtherId == ViewId + 1    \* some other drop of the same contract

EventNames == {"ParticipantJoined", "WinnersSelected", "DropCancelled", "GameFunded"}

Null == <<>>

VARIABLES
  remote,            \* the drop ViewId as stored by the contract
  events,            \* contract events emitted and not yet delivered
  address,           \* useAccount().address ("" when no wallet is ready)
  route,             \* "drop" while the page is mounted, "available" after navigate
  dropInfo,          \* useState<ExtendedDropInfo | null>
  participants,      \* useState<Participant[]>
  actionInProgress, error, isCancelledForUI, winnerIndices,
  watchers,          \* live watchContractEvent subscriptions
  fetches,           \* fetchAndSetDropInfo calls in flight: position and what they read
  act,               \* the action handler in flight (joinDrop, selectWinnersManually)
  winnersHandler,    \* the WinnersSelected callback: "idle" or "dispatching"
  toastMsg,          \* the toast.error an action handler raised in the latest step ("" when none)
  \* api/send-notification (one server process)
  notificationData,  \* the request body being handled (EmptyBody when none)
  handler,           \* position of handleNotificationLogic
  profileCache,      \* const profileCache = new Map()
  profiles,          \* result of fetchFarcasterProfiles in the running call
  targetFids,        \* target FIDs of the running call
  posted,            \* target_fids of the requests made to the notification API
  result,            \* how the latest call ended: <<[threw, success, message]>> (Null while none)
  apiKey,            \* NEYNAR_API_KEY is set
  directory,         \* the identity service: address -> FID (0 when it has none)
  req,               \* the request the endpoint handles: <<[method, body]>> (Null before the first)
  res,               \* the response the endpoint sent for it (Null while it has sent none)
  \* the reward and entry-fee formatters, and the server they run on
  fmt,               \* the formatter call in flight or finished
  modulesLoaded,     \* REWARD_TYPE_MODULE, ERC20_MINIMAL_ABI_MODULE, FIREBALL_DROP_ABI_MODULE are set
  env,               \* CONTRACT_ADDRESS and ALCHEMY_API_KEY are set
  \* api/frame-handler
  frame,             \* the handler call: position, req.query.dropId, the failure it met
  frameRes,          \* the response it sent (Null while it has sent none)
  \* concurrent calls of fetchFarcasterProfiles in the server process
  calls,             \* per call: position, the chunk it requested, its results
  cacheWrites,       \* per address: the values profileCache.set has stored, in order
  \* CreateDropPage
  form               \* the form's useState values, the deps each effect last ran with, the last input

vars == <<remote, events, address, route, dropInfo, participants,
          actionInProgress, error, isCancelledForUI, winnerIndices, watchers, fetches, act, winnersHandler, toastMsg,
          notificationData, handler, profileCache, profiles, targetFids, posted, result, apiKey, directory,
          req, res, fmt, modulesLoaded, env, frame, frameRes, calls, cacheWrites, form>>

frameVars == <<frame, frameRes>>

profileCalls == <<calls, cacheWrites>>

otherVars == <<fmt, modulesLoaded, env, frameVars, profileCalls, form>>

serverVars == <<notificationData, handler, profileCache, profiles, targetFids, posted, result, apiKey, directory,
                req, res>>

pageVars == <<remote, events, address, route, dropInfo, participants, actionInProgress, error,
              isCancelledForUI, winnerIndices, watchers, fetches, act, winnersHandler, toastMsg>>

localVars == <<dropInfo, participants, error, isCancelledForUI, winnerIndices>>

\* ------------------------------------------------------- sequence helpers
Range(s) == {s[i] : i \in 1..Len(s)}

\* findIndex counting positions from 1
findIndex_OneBased(s, a) ==
  IF \E i \in 1..Len(s) : getAddress(s[i]) = getAddress(a)
    THEN CHOOSE i \in 1..Len(s) :
            /\ getAddress(s[i]) = getAddress(a)
            /\ \A j \in 1..(i-1) : getAddress(s[j]) # getAddress(a)
    ELSE -1

\* Array.prototype.findIndex on addresses, 0-based, -1 when absent
findIndex(s, a) ==
  IF \E i \in 1..Len(s) : getAddress(s[i]) = getAddress(a)
    THEN (CHOOSE i \in 1..Len(s) :
            /\ getAddress(s[i]) = getAddress(a)
            /\ \A j \in 1..(i-1) : getAddress(s[j]) # getAddress(a)) - 1
    ELSE -1

RECURSIVE filterFound(_)
filterFound(s) ==
  IF s = <<>> THEN <<>>
  ELSE IF Head(s) # -1 THEN <<Head(s)>> \o filterFound(Tail(s))
       ELSE filterFound(Tail(s))

\* winners.map(w => participants.findIndex(...)).filter(i => i !== -1)
indicesOf(winners, addrs) ==
  filterFound([i \in 1..Len(winners) |-> findIndex(addrs, winners[i])])

\* ------------------------------------------------------ the remote contract
\* Drops the contract can hold when the page is opened.
InitialConfigs ==
  { [isPaidEntry |-> TRUE, rewardType |-> "ETH", isSponsored |-> FALSE, numWinners |-> 2],
    [isPaidEntry |-> TRUE, rewardType |-> "ERC20", isSponsored |-> FALSE, numWinners |-> 1],
    [isPaidEntry |-> FALSE, rewardType |-> "ETH", isSponsored |-> TRUE, numWinners |-> 1] }

NewRemoteDrop(c) ==
  [host |-> HostAddr, sponsor |-> ZERO,
   entryFee |-> IF c.isPaidEntry THEN 1 ELSE 0,
   rewardAmount |-> 2,
   rewardToken |-> IF c.rewardType = "ERC20" THEN TokenAddr ELSE ZERO,
   rewardType |-> c.rewardType, rewardTokenIds |-> <<>>,
   maxParticipants |-> MaxP,
   isActive |-> TRUE, isCompleted |-> FALSE,
   isPaidEntry |-> c.isPaidEntry, isManualSelection |-> TRUE,
   isSponsored |-> c.isSponsored, numWinners |-> c.numWinners,
   fundingDeadline |-> IF c.isSponsored THEN 1 ELSE 0,
   participants |-> <<>>, winners |-> <<>>]

\* getDropInfo(dropId): the 17-position tuple, in the contract's field order
getDropInfo(r) ==
  << r.host, r.sponsor, r.entryFee, r.rewardAmount, r.rewardToken, r.rewardType,
     r.rewardTokenIds, r.maxParticipants, Len(r.participants), r.isActive,
     r.isCompleted, r.isPaidEntry, r.isManualSelection, r.isSponsored,
     r.numWinners, r.fundingDeadline, r.winners >>

\* getDropParticipants(dropId): the participant addresses in join order
getDropParticipants(r) == r.participants

CanJoinRemote(r, a) ==
  /\ r.isActive /\ ~r.isCompleted
  /\ getAddress(a) \notin Range(r.participants)
  /\ getAddress(a) # r.host
  /\ Len(r.participants) < r.maxParticipants
  /\ ~(r.isSponsored /\ r.sponsor = ZERO)

JoinedRemote(r, a) == [r EXCEPT !.participants = Append(@, getAddress(a))]

CanSelectRemote(r) ==
  /\ r.isActive /\ ~r.isCompleted
  /\ Len(r.participants) >= r.numWinners

\* the ordered winner lists the contract can draw from the participants
WinnerLists(r) ==
  { w \in [1..r.numWinners -> Range(r.participants)] :
      \A i, j \in 1..r.numWinners : i # j => w[i] # w[j] }

SelectedRemote(r, w) ==
  [r EXCEPT !.winners = w, !.isCompleted = TRUE, !.isActive = FALSE]

CanCancelRemote(r) == r.isActive /\ ~r.isCompleted

CancelledRemote(r) == [r EXCEPT !.isCompleted = TRUE, !.isActive = FALSE]

Emit(name, id) == events' = events \cup {[name |-> name, dropId |-> id]}

CanEmit == Cardinality(events) < MaxEvents

\* ------------------------------------------------------------ the drop page
\* the destructuring with maxParticipants and currentParticipants exchanged
NewDropInfoState_Swapped(currentDropId, t) ==
  [id |-> currentDropId, host |-> t[1], sponsor |-> t[2],
   rawEntryFee |-> t[3], rawRewardAmount |-> t[4],
   rewardToken |-> t[5], rewardType |-> t[6], rewardTokenIds |-> t[7],
   maxParticipants |-> t[9], currentParticipants |-> t[8],
   isActive |-> t[10], isCompleted |-> t[11], isPaidEntry |-> t[12],
   isManualSelection |-> t[13], isSponsored |-> t[14], numWinners |-> t[15],
   fundingDeadline |-> t[16], winners |-> t[17]]

\* newDropInfoState: positional destructuring of the getDropInfo tuple
NewDropInfoState(currentDropId, t) ==
  [id |-> currentDropId, host |-> t[1], sponsor |-> t[2],
   rawEntryFee |-> t[3], rawRewardAmount |-> t[4],
   rewardToken |-> t[5], rewardType |-> t[6], rewardTokenIds |-> t[7],
   maxParticipants |-> t[8], currentParticipants |-> t[9],
   isActive |-> t[10], isCompleted |-> t[11], isPaidEntry |-> t[12],
   isManualSelection |-> t[13], isSponsored |-> t[14], numWinners |-> t[15],
   fundingDeadline |-> t[16], winners |-> t[17]]

\* participantList: one record per address, slot = array index
participantList(addrs) ==
  [i \in 1..Len(addrs) |-> [address |-> addrs[i], slot |-> i - 1]]

participantAddresses(ps) == [i \in 1..Len(ps) |-> ps[i].address]

\* the test taking the inactive drops instead of the active ones
UnfundedSponsored_Inactive(t) == t[14] /\ t[2] = ZERO /\ ~t[10]

\* the sponsored-and-unfunded test of the fetcher
UnfundedSponsored(t) == t[14] /\ t[2] = ZERO /\ t[10]

\* setIsCancelledForUI argument
CancelledForUI(t) == ~t[10] /\ t[11] /\ Len(t[17]) = 0

\* uiIsEffectivelyCancelled of the render
uiIsEffectivelyCancelled(d) == ~d.isActive /\ d.isCompleted /\ Len(d.winners) = 0

\* the Status label of the render
StatusLabel(d) ==
  IF uiIsEffectivelyCancelled(d) THEN "Cancelled"
  ELSE IF d.isCompleted THEN "Ended"
  ELSE IF d.isActive THEN "Active"
  ELSE "Inactive"

isUserParticipant(ps, a) ==
  a # "" /\ \E i \in 1..Len(ps) : getAddress(ps[i].address) = getAddress(a)

isUserHost(d, a) == a # "" /\ getAddress(d.host) = getAddress(a)

\* which action buttons the render offers
JoinButtonShown(d) == ~d.isCompleted /\ d.isActive /\ ~uiIsEffectivelyCancelled(d)
CancelButtonShown(d, a) ==
  isUserHost(d, a) /\ d.isActive /\ ~d.isCompleted /\ ~uiIsEffectivelyCancelled(d)
RefundButtonShown(d, ps, a) ==
  isUserParticipant(ps, a) /\ uiIsEffectivelyCancelled(d) /\ d.isPaidEntry

AllWatchers == {[eventName |-> n, dropId |-> ViewId] : n \in EventNames}

IdleAct == [kind |-> "none", pc |-> "idle", info |-> Null, writes |-> {},
            afterJoin |-> FALSE, winners |-> <<>>,
            balance |-> 0, receipts |-> {}, status |-> "",
            value |-> 0, approveAmount |-> 0]

\* a call of fetchAndSetDropInfo(dropId, ...) up to its first await
Called == [st |-> "read1", tuple |-> Null]

CallFetch ==
  /\ BagCardinality(fetches) < MaxFetches
  /\ fetches' = fetches (+) SetToBag({Called})

Settled(f) == fetches (-) SetToBag({f})

Wallets == {"0xh", "0xu"}

\* the people the identity service may know
People == {HostAddr, UserAddr, OtherAddr}

\* the FID the identity service holds for a person who has one
FidOf(a) == CASE a = HostAddr -> 11 [] a = UserAddr -> 12 [] OTHER -> 13

NotCached == -1              \* profileCache.has(addr) is false

NoProfiles == [a \in {} |-> 0]

Absent == "undefined"        \* an address or category the request body does not carry
NoDropId == 0                \* the body carries no dropId
NotAnArray == <<Absent>>     \* the body carries no winnerAddresses array

\* a request body with no field set
EmptyBody ==
  [category |-> Absent, dropId |-> NoDropId, hostAddress |-> Absent,
   creatorAddress |-> Absent, sponsorAddress |-> Absent, participantAddress |-> Absent,
   winnerAddresses |-> NotAnArray, targetFids |-> <<>>]

\* a formatted amount: digits * 10^-scale, followed by suffix
Display(amount, suffix) == [digits |-> amount.digits, scale |-> amount.scale, suffix |-> suffix]

Plain(n) == [digits |-> n, scale |-> 0]

\* no formatter call has been made
IdleFmt ==
  [fn |-> "none", pc |-> "idle", rawAmount |-> 0, token |-> ZERO, decimals |-> 0,
   decimalsFailed |-> FALSE, symbolFailed |-> FALSE, out |-> Display(Plain(0), ""),
   threw |-> FALSE]

\* no request has reached the frame handler
IdleFrame == [pc |-> "idle", dropId |-> "", failure |-> ""]

\* a fetchFarcasterProfiles call slot with no call in it
IdleCall == [pc |-> "idle", chunk |-> {}, results |-> NoProfiles]

NoProfileCalls ==
  /\ calls = [i \in 1..MaxCalls |-> IdleCall]
  /\ cacheWrites = [a \in People |-> <<>>]

USDC_BASE_ADDRESS == "0xUSDC"

\* CreateDropPage as constructed: the useState initial values, no effect has run yet
InitialForm ==
  [selectedRewardType |-> "ETH", fundingType |-> "participant-paid", isSponsoredGame |-> FALSE,
   entryFeeString |-> "", rewardTokenAddress |-> "", rewardTokenIdsString |-> "",
   rewardDeps |-> Null, fundingDeps |-> Null, input |-> Null]

FormatIdle ==
  /\ fmt = IdleFmt /\ modulesLoaded = TRUE /\ env = TRUE
  /\ frame = IdleFrame /\ frameRes = Null
  /\ NoProfileCalls
  /\ form = InitialForm

\* the server process before its first request
ServerIdle ==
  /\ notificationData = EmptyBody
  /\ handler = "idle"
  /\ profileCache = [a \in People |-> NotCached]
  /\ profiles = NoProfiles
  /\ targetFids = <<>>
  /\ posted = <<>>
  /\ result = Null
  /\ req = Null
  /\ res = Null

Init ==
  /\ \E c \in InitialConfigs : remote = NewRemoteDrop(c)
  /\ events = {}
  /\ address \in Wallets
  /\ remote.isSponsored => address = "0xh"     \* the sponsored drop is opened by its host
  /\ route = "drop"
  /\ dropInfo = Null
  /\ participants = <<>>
  /\ actionInProgress = FALSE
  /\ error = ""
  /\ isCancelledForUI = FALSE
  /\ winnerIndices = <<>>
  /\ watchers = AllWatchers
  /\ fetches = SetToBag({Called})
  /\ act = IdleAct
  /\ winnersHandler = "idle"
  /\ toastMsg = ""
  /\ ServerIdle
  /\ FormatIdle
  /\ apiKey = TRUE
  /\ directory = [a \in People |-> FidOf(a)]

\* ---------------------------------------------------- fetchAndSetDropInfo
\* catch + finally of the fetcher
FetchFailed(f, msg) ==
  /\ error' = msg
  /\ toastMsg' = ""
  /\ fetches' = Settled(f)
  /\ UNCHANGED <<dropInfo, participants, isCancelledForUI, winnerIndices, watchers>>

\* the getDropInfo read settles
FetchReadInfo(f) ==
  /\ route = "drop"
  /\ BagIn(f, fetches) /\ f.st = "read1"
  /\ \/ /\ FetchFailed(f, "Failed to fetch drop info")
        /\ UNCHANGED route
     \/ LET t == getDropInfo(remote) IN
        IF UnfundedSponsored(t)
          THEN /\ error' = "Unfunded sponsored game"
               /\ toastMsg' = ""
               /\ fetches' = Settled(f)
               /\ route' = "available"       \* navigate("/available"): the page is
               /\ watchers' = {}             \* discarded and the effect's cleanup runs
               /\ UNCHANGED <<dropInfo, participants, isCancelledForUI, winnerIndices>>
          ELSE /\ fetches' = Settled(f) (+) SetToBag({[f EXCEPT !.st = "read2", !.tuple = t]})
               /\ toastMsg' = ""
               /\ UNCHANGED <<route, localVars, watchers>>
  /\ UNCHANGED <<remote, events, address, serverVars, otherVars, actionInProgress, act, winnersHandler>>

\* the getDropParticipants read settles; on success the record is replaced and
\* the subscription effect, which depends on dropInfo, runs again
FetchReadParticipants(f) ==
  /\ route = "drop"
  /\ BagIn(f, fetches) /\ f.st = "read2"
  /\ \/ /\ FetchFailed(f, "Failed to fetch drop info")
     \/ LET t == f.tuple
            list == participantList(getDropParticipants(remote))
            indices == indicesOf(t[17], participantAddresses(list))
        IN
        /\ participants' = list
        /\ dropInfo' = <<NewDropInfoState(ViewId, t)>>
        /\ isCancelledForUI' = CancelledForUI(t)
        /\ IF t[11] /\ Len(t[17]) > 0 /\ Len(indices) > 0
             THEN winnerIndices' = indices
             ELSE UNCHANGED winnerIndices
        /\ watchers' = AllWatchers
        /\ fetches' = Settled(f) (+) SetToBag({Called})
        /\ UNCHANGED error
        /\ toastMsg' = ""
  /\ UNCHANGED <<remote, events, address, serverVars, otherVars, route, actionInProgress, act, winnersHandler>>

\* ------------------------------------------------------ event subscriptions
\* the dropId test of watchEvent's onLogs
Matches(logDropId) == logDropId = ViewId

\* onLogs of a watcher for an event of another drop: the dropId test drops it
OnLogsOtherDrop ==
  /\ route = "drop"
  /\ watchers # {}
  /\ IF Matches(OtherId) THEN CallFetch ELSE UNCHANGED fetches
  /\ toastMsg' = ""
  /\ UNCHANGED <<remote, events, address, serverVars, otherVars, route, localVars, actionInProgress, watchers,
                 act, winnersHandler>>

\* ParticipantJoined, DropCancelled, GameFunded of the viewed drop
OnLogsRefetch(e) ==
  /\ route = "drop"
  /\ e \in events /\ Matches(e.dropId) /\ e.name # "WinnersSelected"
  /\ [eventName |-> e.name, dropId |-> e.dropId] \in watchers
  /\ events' = events \ {e}
  /\ CallFetch
  /\ UNCHANGED <<remote, address, serverVars, otherVars, route, localVars, actionInProgress, watchers,
                 act, winnersHandler>>
  /\ toastMsg' = ""

\* WinnersSelected of the viewed drop: the callback runs up to the notification request
OnLogsWinnersSelected(e) ==
  /\ route = "drop"
  /\ e \in events /\ Matches(e.dropId) /\ e.name = "WinnersSelected"
  /\ [eventName |-> e.name, dropId |-> e.dropId] \in watchers
  /\ winnersHandler = "idle"
  /\ events' = events \ {e}
  /\ \/ /\ dropInfo = Null                     \* if (!dropInfo) return
        /\ toastMsg' = ""
        /\ UNCHANGED winnersHandler
     \/ /\ toastMsg' = ""                     \* decodeEventLog throws: toast.warn
        /\ UNCHANGED winnersHandler
     \/ /\ dropInfo # Null
        /\ winnersHandler' = "dispatching"
        /\ toastMsg' = ""
  /\ UNCHANGED <<remote, address, serverVars, otherVars, route, localVars, actionInProgress, watchers,
                 fetches, act>>

DispatchOutcomes == {"ok", "notOk", "notOkBadBody", "throws"}

\* the request to /api/send-notification settles
WinnersSelectedDispatched(outcome) ==
  /\ winnersHandler = "dispatching"
  /\ winnersHandler' = "idle"
  /\ IF outcome \in {"ok", "notOk"}
       THEN CallFetch                    \* "notOk": toast.warn, then the refetch
       ELSE UNCHANGED fetches            \* the catch: toast.warn only
  /\ toastMsg' = ""
  /\ UNCHANGED <<remote, events, address, serverVars, otherVars, route, localVars, actionInProgress, watchers,
                 act>>

\* the user leaves the page: the component and its state are discarded, the effect's
\* cleanup unwatches, what requests in flight return goes to the discarded component
NavigateAway ==
  /\ route = "drop"
  /\ route' = "available"
  /\ watchers' = {}
  /\ events' = {}
  /\ dropInfo' = Null
  /\ participants' = <<>>
  /\ error' = ""
  /\ isCancelledForUI' = FALSE
  /\ winnerIndices' = <<>>
  /\ actionInProgress' = FALSE
  /\ act' = IdleAct
  /\ fetches' = EmptyBag
  /\ toastMsg' = ""
  /\ UNCHANGED <<remote, address, winnersHandler, serverVars, otherVars>>

\* ---------------------------------------------------------------- joinDrop
WalletOrDropMissing == address = "" \/ dropInfo = Null

\* the host comparison without address normalisation
JoinHostCheck_Raw(d, a) == d.host # "" /\ d.host = a

\* the host comparison of the join gate
JoinHostCheck(d, a) == d.host # "" /\ getAddress(d.host) = getAddress(a)

\* the local precondition gate of joinDrop: "" when the call may proceed
JoinGate(d, ps, a) ==
  IF ~d.isActive THEN "This drop is no longer active."
  ELSE IF d.isCompleted THEN "This drop has already ended."
  ELSE IF isUserParticipant(ps, a) THEN "You have already joined this drop."
  ELSE IF d.currentParticipants >= d.maxParticipants THEN "This drop is full."
  ELSE IF d.isSponsored /\ d.sponsor = ZERO THEN "This sponsored game is not funded yet."
  ELSE IF JoinHostCheck(d, a) THEN "As the host, you cannot join your own drop."
  ELSE ""

\* the fields of the handler's dropInfo that joinDrop reads after the gate
Payment(d) ==
  [isPaidEntry |-> d.isPaidEntry, rewardType |-> d.rewardType,
   rawEntryFee |-> d.rawEntryFee, rewardToken |-> d.rewardToken]

IsTokenPaid(d) == d.isPaidEntry /\ d.rewardType \in {"ERC20", "USDC"}
IsEthPaid(d) == d.isPaidEntry /\ d.rewardType = "ETH"

\* the joinDrop write carrying the entry fee whatever the drop is paid in
valueToSend_AnyFee(d) == d.rawEntryFee

\* valueToSend of joinDrop: the raw entry fee for a paid ETH drop, 0n otherwise
valueToSend(d) == IF IsEthPaid(d) THEN d.rawEntryFee ELSE 0

\* entryFeeInSmallestUnit, the amount of the approve write of a paid token drop
entryFeeInSmallestUnit(d) == d.rawEntryFee

\* err.shortMessage of a failed remote request
RequestFailed == "Request failed"

\* a catch whose handler has no finally block
ActionFailed_NoFinally(msg) ==
  /\ error' = msg
  /\ toastMsg' = msg
  /\ UNCHANGED actionInProgress
  /\ act' = IdleAct

\* catch + finally of an action handler
ActionFailed(msg) ==
  /\ error' = msg
  /\ toastMsg' = msg
  /\ actionInProgress' = FALSE
  /\ act' = IdleAct

\* the wallet's address is a participant of the remote drop; the page's confirmed
\* joinDrop transaction is the only way it becomes one
UserJoinedRemote == getAddress(address) \in Range(getDropParticipants(remote))

\* joinDrop is invoked: the gate, then the handler up to its first remote request
JoinInvoke ==
  /\ route = "drop" /\ act.pc = "idle"
  /\ IF WalletOrDropMissing
       THEN /\ toastMsg' = "Wallet not ready or drop info missing."
            /\ UNCHANGED <<act, actionInProgress, error>>
       ELSE LET d == dropInfo[1]
                gate == JoinGate(d, participants, address) IN
            IF gate # ""
              THEN /\ toastMsg' = gate
                   /\ UNCHANGED <<act, actionInProgress, error>>
              ELSE IF (IsTokenPaid(d) \/ IsEthPaid(d)) /\ d.rawEntryFee = 0
                THEN ActionFailed("Entry fee cannot be zero for a paid drop.")
                ELSE /\ actionInProgress' = TRUE
                     /\ error' = ""
                     /\ act' = [IdleAct EXCEPT !.kind = "join", !.info = <<Payment(d)>>,
                                  !.afterJoin = UserJoinedRemote,
                                  !.pc = IF IsTokenPaid(d) \/ IsEthPaid(d) THEN "balance"
                                         ELSE "joinTx",
                                  !.writes = IF IsTokenPaid(d) \/ IsEthPaid(d) THEN {}
                                             ELSE {"joinDrop"},
                                  !.value = IF IsTokenPaid(d) \/ IsEthPaid(d) THEN 0
                                            ELSE valueToSend(d)]
                     /\ toastMsg' = ""
  /\ UNCHANGED <<remote, events, address, serverVars, otherVars, route, dropInfo, participants,
                 isCancelledForUI, winnerIndices, watchers, fetches,
                 winnersHandler>>

\* the balance test with the comparison turned round
InsufficientBalance_Inverted(balance, fee) == balance > fee

\* balance < entryFeeInSmallestUnit, ethBalance < valueToSend
InsufficientBalance(balance, fee) == balance < fee

Balances == {0, 1}           \* what balanceOf / getBalance can return

ReadOutcomes == Balances \cup {-1}     \* -1: the read fails

\* the balanceOf / getBalance read settles; with enough balance the next write is requested
JoinBalanceRead(outcome) ==
  /\ route = "drop" /\ act.kind = "join" /\ act.pc = "balance"
  /\ LET d == act.info[1] IN
     IF outcome = -1 THEN ActionFailed(RequestFailed)
     ELSE IF InsufficientBalance(outcome, d.rawEntryFee)
       THEN ActionFailed("Insufficient balance to join.")
     ELSE /\ act' = [act EXCEPT !.pc = IF IsTokenPaid(d) THEN "approveTx" ELSE "joinTx",
                                !.balance = outcome,
                                !.writes = IF IsTokenPaid(d) THEN {"approve"} ELSE {"joinDrop"},
                                !.approveAmount = IF IsTokenPaid(d)
                                                    THEN entryFeeInSmallestUnit(d) ELSE 0,
                                !.value = IF IsTokenPaid(d) THEN 0 ELSE valueToSend(d)]
          /\ UNCHANGED <<error, actionInProgress>>
          /\ toastMsg' = ""
  /\ UNCHANGED <<remote, events, address, serverVars, otherVars, route, dropInfo, participants,
                 isCancelledForUI, winnerIndices, watchers, fetches,
                 winnersHandler>>

TxOutcomes == {"rejected", "reverted", "success"}

\* the approve write and its receipt settle; joinDrop is requested after the receipt
JoinApproveSettled(outcome) ==
  /\ route = "drop" /\ act.kind = "join" /\ act.pc = "approveTx"
  /\ IF outcome = "rejected" THEN ActionFailed(RequestFailed)
     ELSE /\ act' = [act EXCEPT !.pc = "joinTx", !.writes = @ \cup {"joinDrop"},
                                !.receipts = @ \cup {"approve"},
                                !.value = valueToSend(act.info[1])]
          /\ UNCHANGED <<error, actionInProgress>>
          /\ toastMsg' = ""
  /\ UNCHANGED <<remote, events, address, serverVars, otherVars, route, dropInfo, participants,
                 isCancelledForUI, winnerIndices, watchers, fetches,
                 winnersHandler>>

CanEmitEvent(name) ==
  Cardinality(events \cup {[name |-> name, dropId |-> ViewId]}) <= MaxEvents

\* the joinDrop write and its receipt settle
JoinTxSettled(outcome) ==
  /\ route = "drop" /\ act.kind = "join" /\ act.pc = "joinTx"
  /\ CASE outcome = "rejected" ->
            /\ ActionFailed(RequestFailed)
            /\ UNCHANGED <<remote, events>>
       [] outcome = "reverted" ->
            /\ ~CanJoinRemote(remote, address)
            /\ act' = [act EXCEPT !.pc = "notify"]
            /\ UNCHANGED <<remote, events, error, actionInProgress>>
            /\ toastMsg' = ""
       [] outcome = "success" ->
            /\ CanJoinRemote(remote, address)
            /\ CanEmitEvent("ParticipantJoined")
            /\ remote' = JoinedRemote(remote, address)
            /\ Emit("ParticipantJoined", ViewId)
            /\ act' = [act EXCEPT !.pc = "notify"]
            /\ UNCHANGED <<error, actionInProgress>>
            /\ toastMsg' = ""
  /\ UNCHANGED <<address, serverVars, otherVars, route, dropInfo, participants,
                 isCancelledForUI, winnerIndices, watchers, fetches,
                 winnersHandler>>

\* joinDrop with the notification inside the outer try: its failure is the action's
JoinNotified_Fails(outcome) ==
  /\ route = "drop" /\ act.kind = "join" /\ act.pc = "notify"
  /\ outcome \in DispatchOutcomes
  /\ IF outcome = "ok"
       THEN /\ CallFetch
            /\ actionInProgress' = FALSE
            /\ act' = IdleAct
            /\ toastMsg' = ""
            /\ UNCHANGED error
       ELSE /\ ActionFailed("Failed to join drop")
            /\ UNCHANGED fetches
  /\ UNCHANGED <<remote, events, address, serverVars, otherVars, route, dropInfo, participants,
                 isCancelledForUI, winnerIndices, watchers, winnersHandler>>

\* the game-joined notification settles, then the refetch is called and finally runs
JoinNotified(outcome) ==
  /\ route = "drop" /\ act.kind = "join" /\ act.pc = "notify"
  /\ outcome \in DispatchOutcomes
  /\ CallFetch
  /\ actionInProgress' = FALSE
  /\ act' = IdleAct
  /\ UNCHANGED <<remote, events, address, serverVars, otherVars, route, localVars, watchers, winnersHandler>>
  /\ toastMsg' = ""

\* --------------------------------------------------- selectWinnersManually
\* the gate without the participant-count test
SelectGate_NoCount(d) ==
  IF ~d.isActive THEN "Drop is not active."
  ELSE IF d.isCompleted THEN "Drop is already completed."
  ELSE ""

\* the local checks of selectWinnersManually: "" when the write may be requested
SelectGate(d) ==
  IF d.currentParticipants < d.numWinners THEN "Not enough participants."
  ELSE IF ~d.isActive THEN "Drop is not active."
  ELSE IF d.isCompleted THEN "Drop is already completed."
  ELSE ""

SelectInvoke ==
  /\ route = "drop" /\ act.pc = "idle"
  /\ IF WalletOrDropMissing
       THEN /\ toastMsg' = "Wallet not ready or drop info missing."
            /\ UNCHANGED <<act, actionInProgress, error>>
       ELSE LET gate == SelectGate(dropInfo[1]) IN
            IF gate # ""
              THEN ActionFailed(gate)
              ELSE /\ actionInProgress' = TRUE
                   /\ error' = ""
                   /\ act' = [IdleAct EXCEPT !.kind = "select",
                                !.pc = "selectTx", !.writes = {"selectWinnersManually"}]
                   /\ toastMsg' = ""
  /\ UNCHANGED <<remote, events, address, serverVars, otherVars, route, dropInfo, participants,
                 isCancelledForUI, winnerIndices, watchers, fetches,
                 winnersHandler>>

\* the selectWinnersManually write and its receipt settle; the receipt logs are decoded
SelectTxSettled(outcome, w, decoded) ==
  /\ route = "drop" /\ act.kind = "select" /\ act.pc = "selectTx"
  /\ CASE outcome = "rejected" ->
            /\ w = <<>> /\ ~decoded
            /\ ActionFailed(RequestFailed)
            /\ UNCHANGED <<remote, events>>
       [] outcome = "reverted" ->          \* or mined as a randomness request only
            /\ w = <<>> /\ ~decoded
            /\ act' = [act EXCEPT !.pc = "fallback", !.status = "reverted"]
            /\ UNCHANGED <<remote, events, error, actionInProgress>>
            /\ toastMsg' = ""
       [] outcome = "success" ->
            /\ getAddress(address) = remote.host
            /\ CanSelectRemote(remote)
            /\ w \in WinnerLists(remote)
            /\ CanEmitEvent("WinnersSelected")
            /\ remote' = SelectedRemote(remote, w)
            /\ Emit("WinnersSelected", ViewId)
            /\ act' = IF decoded
                        THEN [act EXCEPT !.pc = "participants", !.winners = w,
                                         !.status = "success"]
                        ELSE [act EXCEPT !.pc = "fallback", !.status = "success"]
            /\ UNCHANGED <<error, actionInProgress>>
            /\ toastMsg' = ""
  /\ UNCHANGED <<address, serverVars, otherVars, route, dropInfo, participants,
                 isCancelledForUI, winnerIndices, watchers, fetches,
                 winnersHandler>>

\* the fallback getDropInfo read settles
SelectFallbackRead(ok) ==
  /\ route = "drop" /\ act.kind = "select" /\ act.pc = "fallback"
  /\ IF ok
       THEN /\ act' = [act EXCEPT !.pc = "participants", !.winners = getDropInfo(remote)[17]]
            /\ UNCHANGED <<error, actionInProgress>>
            /\ toastMsg' = ""
       ELSE ActionFailed(RequestFailed)
  /\ UNCHANGED <<remote, events, address, serverVars, otherVars, route, dropInfo, participants,
                 isCancelledForUI, winnerIndices, watchers, fetches,
                 winnersHandler>>

\* the write-back without isActive: false
WriteBack_KeepsActive(prev, newWinnerAddresses) ==
  IF prev # Null
    THEN <<[prev[1] EXCEPT !.winners = newWinnerAddresses, !.isCompleted = TRUE]>>
    ELSE Null

\* setDropInfo(prev => ...) of the winner write-back
WriteBack(prev, newWinnerAddresses) ==
  IF prev # Null
    THEN <<[prev[1] EXCEPT !.winners = newWinnerAddresses, !.isCompleted = TRUE,
                           !.isActive = FALSE]>>
    ELSE Null

\* the getDropParticipants read settles; the winners are written back, the
\* subscription effect runs again for the new dropInfo, finally runs
SelectParticipantsRead(ok) ==
  /\ route = "drop" /\ act.kind = "select" /\ act.pc = "participants"
  /\ IF ok
       THEN /\ dropInfo' = WriteBack(dropInfo, act.winners)
            /\ winnerIndices' = indicesOf(act.winners, getDropParticipants(remote))
            /\ actionInProgress' = FALSE
            /\ act' = IdleAct
            /\ CallFetch
            /\ watchers' = AllWatchers
            /\ UNCHANGED <<error>>
            /\ toastMsg' = ""
       ELSE /\ ActionFailed(RequestFailed)
            /\ UNCHANGED <<dropInfo, winnerIndices, fetches, watchers>>
  /\ UNCHANGED <<remote, events, address, serverVars, otherVars, route, participants, isCancelledForUI,
                 winnersHandler>>

\* ---------------------------------------------------------------- cancelDrop
\* disabled= of the Cancel Drop button
CancelButtonDisabled(d) ==
  actionInProgress \/ d.isCompleted \/ ~d.isActive
    \/ d.currentParticipants >= d.maxParticipants

\* the local checks of cancelDrop: "" when the write may be requested
CancelGate(d) ==
  IF d.currentParticipants >= d.maxParticipants /\ ~d.isCompleted
    THEN "Cannot cancel a drop that is full and not yet completed via winner selection."
  ELSE IF ~d.isActive THEN "Drop is not active to be cancelled."
  ELSE IF d.isCompleted THEN "Drop is already completed."
  ELSE ""

\* the Cancel Drop button is clicked: cancelDrop up to its write
CancelInvoke ==
  /\ route = "drop" /\ act.pc = "idle"
  /\ dropInfo # Null
  /\ CancelButtonShown(dropInfo[1], address) /\ ~CancelButtonDisabled(dropInfo[1])
  /\ LET gate == CancelGate(dropInfo[1]) IN
     IF gate # ""
       THEN /\ toastMsg' = gate
            /\ UNCHANGED <<act, actionInProgress, error>>
       ELSE /\ actionInProgress' = TRUE
            /\ error' = ""
            /\ act' = [IdleAct EXCEPT !.kind = "cancel", !.pc = "cancelTx",
                                      !.writes = {"cancelDrop"}]
            /\ toastMsg' = ""
  /\ UNCHANGED <<remote, events, address, serverVars, otherVars, route, dropInfo, participants,
                 isCancelledForUI, winnerIndices, watchers, fetches, winnersHandler>>

\* the cancelDrop write and its receipt settle; the refetch is called, finally runs
CancelTxSettled(outcome) ==
  /\ route = "drop" /\ act.kind = "cancel" /\ act.pc = "cancelTx"
  /\ CASE outcome = "rejected" ->
            /\ ActionFailed(RequestFailed)
            /\ UNCHANGED <<remote, events, fetches>>
       [] outcome = "reverted" ->
            /\ ~CanCancelRemote(remote)
            /\ CallFetch
            /\ actionInProgress' = FALSE
            /\ act' = IdleAct
            /\ toastMsg' = ""
            /\ UNCHANGED <<remote, events, error>>
       [] outcome = "success" ->
            /\ getAddress(address) = remote.host
            /\ CanCancelRemote(remote)
            /\ CanEmitEvent("DropCancelled")
            /\ remote' = CancelledRemote(remote)
            /\ Emit("DropCancelled", ViewId)
            /\ CallFetch
            /\ actionInProgress' = FALSE
            /\ act' = IdleAct
            /\ toastMsg' = ""
            /\ UNCHANGED error
  /\ UNCHANGED <<address, serverVars, otherVars, route, dropInfo, participants, isCancelledForUI,
                 winnerIndices, watchers, winnersHandler>>

\* --------------------------------------------------------------- claimRefund
\* the local checks of claimRefund: "" when the write may be requested
RefundGate(d, ps, a) ==
  IF d.isActive THEN "Drop is still active. Cannot claim refund yet."
  ELSE IF ~d.isCompleted THEN "Drop is not yet marked as completed/cancelled."
  ELSE IF ~d.isPaidEntry THEN "This was not a paid entry drop."
  ELSE IF ~isUserParticipant(ps, a) THEN "You did not participate in this drop."
  ELSE ""

\* the Claim Refund button is clicked: claimRefund up to its write
RefundInvoke ==
  /\ route = "drop" /\ act.pc = "idle"
  /\ dropInfo # Null
  /\ RefundButtonShown(dropInfo[1], participants, address) /\ ~actionInProgress
  /\ LET gate == RefundGate(dropInfo[1], participants, address) IN
     IF gate # ""
       THEN /\ toastMsg' = gate
            /\ UNCHANGED <<act, actionInProgress, error>>
       ELSE /\ actionInProgress' = TRUE
            /\ error' = ""
            /\ act' = [IdleAct EXCEPT !.kind = "refund", !.pc = "refundTx",
                                      !.writes = {"claimRefund"}]
            /\ toastMsg' = ""
  /\ UNCHANGED <<remote, events, address, serverVars, otherVars, route, dropInfo, participants,
                 isCancelledForUI, winnerIndices, watchers, fetches, winnersHandler>>

\* the claimRefund write and its receipt settle; the refetch is called, finally runs
RefundTxSettled(outcome) ==
  /\ route = "drop" /\ act.kind = "refund" /\ act.pc = "refundTx"
  /\ IF outcome = "rejected"
       THEN /\ ActionFailed(RequestFailed)
            /\ UNCHANGED fetches
       ELSE /\ CallFetch
            /\ actionInProgress' = FALSE
            /\ act' = IdleAct
            /\ toastMsg' = ""
            /\ UNCHANGED error
  /\ UNCHANGED <<remote, events, address, serverVars, otherVars, route, dropInfo, participants,
                 isCancelledForUI, winnerIndices, watchers, winnersHandler>>

\* ------------------------------------------- other users and the contract
Joiners == {OtherAddr}        \* the other users who join the viewed drop

RemoteJoin(a) ==
  /\ CanJoinRemote(remote, a)
  /\ CanEmit
  /\ remote' = JoinedRemote(remote, a)
  /\ Emit("ParticipantJoined", ViewId)
  /\ UNCHANGED <<address, serverVars, otherVars, route, localVars, actionInProgress, watchers, fetches,
                 act, winnersHandler>>
  /\ toastMsg' = ""

RemoteSelectWinners(w) ==
  /\ CanSelectRemote(remote)
  /\ w \in WinnerLists(remote)
  /\ CanEmit
  /\ remote' = SelectedRemote(remote, w)
  /\ Emit("WinnersSelected", ViewId)
  /\ UNCHANGED <<address, serverVars, otherVars, route, localVars, actionInProgress, watchers, fetches,
                 act, winnersHandler>>
  /\ toastMsg' = ""

RemoteCancel ==
  /\ CanCancelRemote(remote)
  /\ CanEmit
  /\ remote' = CancelledRemote(remote)
  /\ Emit("DropCancelled", ViewId)
  /\ UNCHANGED <<address, serverVars, otherVars, route, localVars, actionInProgress, watchers, fetches,
                 act, winnersHandler>>
  /\ toastMsg' = ""

RemoteFund ==
  /\ remote.isSponsored /\ remote.sponsor = ZERO /\ remote.isActive
  /\ CanEmit
  /\ remote' = [remote EXCEPT !.sponsor = OtherAddr]
  /\ Emit("GameFunded", ViewId)
  /\ UNCHANGED <<address, serverVars, otherVars, route, localVars, actionInProgress, watchers, fetches,
                 act, winnersHandler>>
  /\ toastMsg' = ""

\* ---------------------------------------------------- api/send-notification

\* viem isAddress: lower-case and checksummed forms of an address
isAddress(a) == a \in {"0xh", "0xu", "0xo"} \cup People

Directories == { d \in [People -> {0, 11, 12, 13}] : \A a \in People : d[a] \in {0, FidOf(a)} }

\* notificationPayload of joinDrop
JoinPayload(a) ==
  [EmptyBody EXCEPT !.category = "game-joined", !.dropId = ViewId,
                    !.participantAddress = a]

\* notificationPayload of the WinnersSelected callback
WinnersPayload(winners) ==
  [EmptyBody EXCEPT !.category = "winners-selected", !.dropId = ViewId,
                    !.winnerAddresses = winners]

\* the bodies posted to the endpoint: those the page builds and those of other clients
Requests ==
  { JoinPayload(a) : a \in {"0xu", UserAddr, "nope"} }
  \cup { [JoinPayload(UserAddr) EXCEPT !.hostAddress = h] : h \in {"0xh", HostAddr} }
  \cup { WinnersPayload(w) : w \in {<<>>, <<UserAddr>>, <<"0xu", OtherAddr>>,
                                     <<OtherAddr, "0xo">>, <<UserAddr, "nope">>, NotAnArray} }
  \cup { [JoinPayload(UserAddr) EXCEPT !.dropId = NoDropId],
         [EmptyBody EXCEPT !.category = "unsupported"],
         [EmptyBody EXCEPT !.category = "welcome"],
         [EmptyBody EXCEPT !.category = "welcome", !.targetFids = <<11>>],
         [EmptyBody EXCEPT !.category = "game-created", !.dropId = ViewId,
                           !.creatorAddress = "0xh"],
         [EmptyBody EXCEPT !.category = "game-created", !.dropId = ViewId],
         [EmptyBody EXCEPT !.category = "game-sponsored", !.dropId = ViewId,
                           !.hostAddress = HostAddr, !.sponsorAddress = "0xo"],
         [EmptyBody EXCEPT !.category = "game-sponsored", !.dropId = ViewId,
                           !.hostAddress = HostAddr] }

IsArray(x) == x # NotAnArray

\* the checksummed address of each valid entry of a list
RECURSIVE validAddresses(_)
validAddresses(seq) ==
  IF seq = <<>> THEN <<>>
  ELSE IF isAddress(Head(seq)) THEN <<getAddress(Head(seq))>> \o validAddresses(Tail(seq))
       ELSE validAddresses(Tail(seq))

\* addressesToFetch of handleNotificationLogic, as the set fetchFarcasterProfiles makes of it
addressesToFetch(nd) ==
  {getAddress(a) : a \in {x \in {nd.hostAddress, nd.sponsorAddress, nd.participantAddress} :
                            isAddress(x)}}
  \cup (IF IsArray(nd.winnerAddresses) THEN Range(validAddresses(nd.winnerAddresses)) ELSE {})

\* profiles[key]?.fid : 0 when the key has no entry or the profile has no FID
fidOf(prof, key) == IF key \in DOMAIN prof THEN prof[key] ELSE 0

\* .filter((fid) => fid)
RECURSIVE truthy(_)
truthy(seq) ==
  IF seq = <<>> THEN <<>>
  ELSE IF Head(seq) # 0 THEN <<Head(seq)>> \o truthy(Tail(seq))
       ELSE truthy(Tail(seq))

\* a call that returned the value {success, message}
Returned(success, message) ==
  <<[threw |-> FALSE, success |-> success, message |-> message]>>

Failure(msg) == Returned(FALSE, <<msg>>)

\* a catch block that throws the error on to the caller
Caught_Rethrows(msg) ==
  <<[threw |-> TRUE, success |-> FALSE, message |-> <<msg>>]>>

\* the catch of handleNotificationLogic
Caught(msg) == Returned(FALSE, <<"Failed to send", msg>>)

\* fetchFarcasterProfiles: the cache it leaves and the results it returns, for one
\* bulk-by-address request (a chunk holds every address of a request here)
fetchFarcasterProfiles(addrs, outcome, emptyLists) ==
  LET cached == {a \in addrs : profileCache[a] # NotCached}
      toFetch == addrs \ cached
      found == {a \in toFetch : directory[a] # 0}
  IN
  IF addrs = {} \/ ~apiKey
    THEN [cache |-> profileCache, results |-> NoProfiles]
  ELSE IF toFetch = {} \/ outcome = "throws"
    THEN [cache |-> profileCache, results |-> [a \in cached |-> profileCache[a]]]
  ELSE IF outcome = "notOk"
    THEN [cache |-> [a \in People |-> IF a \in toFetch THEN 0 ELSE profileCache[a]],
          results |-> [a \in cached |-> profileCache[a]]]
  ELSE [cache |-> [a \in People |->
                     IF a \in found THEN directory[a]
                     ELSE IF a \in toFetch /\ emptyLists THEN 0
                     ELSE profileCache[a]],
        results |-> [a \in cached \cup found |->
                       IF a \in cached THEN profileCache[a] ELSE directory[a]]]

DropCategories == {"game-created", "game-sponsored", "game-joined", "winners-selected"}

Throw(msg) == [kind |-> "throw", msg |-> msg, fids |-> <<>>]

\* targetFids of game-joined
joinedFids(nd, prof) ==
  truthy(<<fidOf(prof, nd.hostAddress), fidOf(prof, nd.participantAddress)>>)

\* winnerFids without the filter of winners that have no FID
winnerFids_Unfiltered(nd, prof) ==
  [i \in 1..Len(nd.winnerAddresses) |-> fidOf(prof, getAddress(nd.winnerAddresses[i]))]

\* winnerFids with the profiles looked up under the address as given
winnerFids_Raw(nd, prof) ==
  truthy([i \in 1..Len(nd.winnerAddresses) |-> fidOf(prof, nd.winnerAddresses[i])])

\* winnerFids of winners-selected
winnerFids(nd, prof) ==
  truthy([i \in 1..Len(nd.winnerAddresses) |-> fidOf(prof, getAddress(nd.winnerAddresses[i]))])

\* the switch on notificationData.category: what the call does next
switch(nd, prof) ==
  CASE nd.category = "welcome" ->
         IF Len(nd.targetFids) = 0
           THEN Throw("Valid targetFids required")
           ELSE [kind |-> "send", msg |-> "", fids |-> nd.targetFids]
    [] nd.category = "game-created" ->
         IF ~isAddress(nd.hostAddress)
           THEN Throw("Valid hostAddress required")
           ELSE [kind |-> "frameUsers", msg |-> "", fids |-> <<>>]
    [] nd.category = "game-sponsored" ->
         IF ~isAddress(nd.hostAddress) \/ ~isAddress(nd.sponsorAddress)
           THEN Throw("Valid host and sponsor addresses required")
           ELSE [kind |-> "frameUsers", msg |-> "", fids |-> <<>>]
    [] nd.category = "game-joined" ->
         IF ~isAddress(nd.participantAddress)
           THEN Throw("Valid participant address required")
           ELSE [kind |-> "send", msg |-> "", fids |-> joinedFids(nd, prof)]
    [] nd.category = "winners-selected" ->
         IF ~IsArray(nd.winnerAddresses)
              \/ \E i \in 1..Len(nd.winnerAddresses) : ~isAddress(nd.winnerAddresses[i])
           THEN Throw("Valid winner addresses required")
           ELSE IF Len(winnerFids(nd, prof)) = 0
             THEN [kind |-> "return", msg |-> "No valid FIDs for winners", fids |-> <<>>]
             ELSE [kind |-> "send", msg |-> "", fids |-> winnerFids(nd, prof)]
    [] OTHER -> Throw("Unsupported category")

\* sendNeynarNotification up to its request to the notification API
sendNeynarNotification(fids) ==
  /\ targetFids' = fids
  /\ IF ~apiKey
       THEN /\ result' = Caught("Neynar API key missing")
            /\ handler' = "idle"
            /\ UNCHANGED posted
       ELSE IF Len(fids) = 0
         THEN /\ result' = Failure("No target FIDs provided")
              /\ handler' = "idle"
              /\ UNCHANGED posted
         ELSE /\ posted' = Append(posted, fids)
              /\ handler' = "posting"
              /\ UNCHANGED result

\* handleNotificationLogic is called: up to the await of fetchFarcasterProfiles
handleNotificationLogic(r) ==
  /\ handler = "idle"
  /\ LET nd == IF r.creatorAddress # Absent /\ r.hostAddress = Absent
                 THEN [r EXCEPT !.hostAddress = r.creatorAddress] ELSE r
     IN
     /\ notificationData' = nd
     /\ posted' = <<>>
     /\ profiles' = NoProfiles
     /\ targetFids' = <<>>
     /\ IF nd.category \in DropCategories /\ nd.dropId = NoDropId
          THEN /\ result' = Caught("dropId required")
               /\ handler' = "idle"
          ELSE /\ result' = Null
               /\ handler' = "profiles"
  /\ UNCHANGED <<profileCache, apiKey, directory, pageVars, otherVars>>

LookupOutcomes == {"ok", "notOk", "throws"}

\* the endpoint answering 200 whatever the dispatch returned
respond_AlwaysOk(rs) ==
  IF rs = Null THEN Null
  ELSE IF rs[1].threw
    THEN <<[status |-> 500, success |-> FALSE, message |-> <<"Server error">> \o rs[1].message]>>
    ELSE <<[status |-> 200, success |-> rs[1].success, message |-> rs[1].message]>>

\* what the endpoint sends once handleNotificationLogic has settled with rs:
\* res.status(result.success ? 200 : 500).json(result), and 500 from its catch
respond(rs) ==
  IF rs = Null THEN Null
  ELSE IF rs[1].threw
    THEN <<[status |-> 500, success |-> FALSE, message |-> <<"Server error">> \o rs[1].message]>>
    ELSE <<[status |-> IF rs[1].success THEN 200 ELSE 500,
            success |-> rs[1].success, message |-> rs[1].message]>>

\* fetchFarcasterProfiles settles, then the switch runs up to the next await
ProfilesSettled(outcome, emptyLists) ==
  /\ handler = "profiles"
  /\ LET f == fetchFarcasterProfiles(addressesToFetch(notificationData), outcome, emptyLists)
         next == switch(notificationData, f.results)
     IN
     /\ profileCache' = f.cache
     /\ profiles' = f.results
     /\ CASE next.kind = "throw" ->
               /\ result' = Caught(next.msg)
               /\ handler' = "idle"
               /\ UNCHANGED <<targetFids, posted>>
          [] next.kind = "return" ->
               /\ result' = Failure(next.msg)
               /\ handler' = "idle"
               /\ targetFids' = next.fids
               /\ UNCHANGED posted
          [] next.kind = "frameUsers" ->
               /\ handler' = "frameUsers"
               /\ UNCHANGED <<targetFids, posted, result>>
          [] next.kind = "send" -> sendNeynarNotification(next.fids)
  /\ res' = respond(result')
  /\ UNCHANGED <<notificationData, apiKey, directory, req, pageVars, otherVars>>

\* the FIDs of the frame_users table
Registered == <<11, 12>>

\* fetchFrameUsersFids settles (an empty list on any error), then the send starts
FrameUsersSettled(ok) ==
  /\ handler = "frameUsers"
  /\ sendNeynarNotification(IF ok THEN Registered ELSE <<>>)
  /\ res' = respond(result')
  /\ UNCHANGED <<notificationData, profileCache, profiles, apiKey, directory, req, pageVars, otherVars>>

\* the request to the notification API settles
PostSettled(outcome) ==
  /\ handler = "posting"
  /\ handler' = "idle"
  /\ result' = IF outcome = "ok" THEN Returned(TRUE, <<"Notification sent">>)
               ELSE Returned(FALSE, <<"Failed to send", outcome>>)
  /\ res' = respond(result')
  /\ UNCHANGED <<notificationData, profileCache, profiles, targetFids, posted, apiKey,
                 directory, req, pageVars, otherVars>>

\* the requests that reach the endpoint
Incoming ==
  {[method |-> "GET", body |-> <<>>]}
  \cup {[method |-> "POST", body |-> b] :
          b \in {<<>>, <<EmptyBody>>, <<[EmptyBody EXCEPT !.category = ""]>>}
                \cup {<<r>> : r \in Requests}}

\* !notificationData || !notificationData.category
InvalidBody(body) == body = <<>> \/ body[1].category \in {Absent, ""}

\* module.exports of api/send-notification: up to its response or to the first await
sendNotification(rq) ==
  /\ handler = "idle"
  /\ req' = <<rq>>
  /\ IF rq.method # "POST"
       THEN /\ res' = <<[status |-> 405, success |-> FALSE,
                         message |-> <<"Method Not Allowed", rq.method>>]>>
            /\ UNCHANGED <<notificationData, handler, profileCache, profiles, targetFids,
                           posted, result, apiKey, directory, pageVars, otherVars>>
       ELSE IF InvalidBody(rq.body)
         THEN /\ res' = <<[status |-> 400, success |-> FALSE,
                           message |-> <<"Invalid request: Expected JSON with 'category'">>]>>
              /\ UNCHANGED <<notificationData, handler, profileCache, profiles, targetFids,
                             posted, result, apiKey, directory, pageVars, otherVars>>
         ELSE /\ handleNotificationLogic(rq.body[1])
              /\ res' = respond(result')


\* the server before its first request; the page is not open
InitNotify ==
  /\ remote = NewRemoteDrop(CHOOSE c \in InitialConfigs : c.numWinners = 2)
  /\ events = {}
  /\ address = "0xu"
  /\ route = "available"
  /\ dropInfo = Null
  /\ participants = <<>>
  /\ actionInProgress = FALSE
  /\ error = ""
  /\ isCancelledForUI = FALSE
  /\ winnerIndices = <<>>
  /\ watchers = {}
  /\ fetches = EmptyBag
  /\ act = IdleAct
  /\ winnersHandler = "idle"
  /\ toastMsg = ""
  /\ ServerIdle
  /\ FormatIdle
  /\ apiKey \in BOOLEAN
  /\ directory \in Directories

NextNotify ==
  \/ \E rq \in Incoming : sendNotification(rq)
  \/ \E o \in LookupOutcomes, e \in BOOLEAN : ProfilesSettled(o, e)
  \/ \E ok \in BOOLEAN : FrameUsersSettled(ok)
  \/ \E o \in LookupOutcomes : PostSettled(o)

SpecNotify == InitNotify /\ [][NextNotify]_vars

Next ==
  \/ \E f \in BagToSet(fetches) : FetchReadInfo(f)
  \/ \E f \in BagToSet(fetches) : FetchReadParticipants(f)
  \/ OnLogsOtherDrop
  \/ \E e \in events : OnLogsRefetch(e)
  \/ \E e \in events : OnLogsWinnersSelected(e)
  \/ \E o \in DispatchOutcomes : WinnersSelectedDispatched(o)
  \/ NavigateAway
  \/ \E a \in Joiners : RemoteJoin(a)
  \/ \E w \in WinnerLists(remote) : RemoteSelectWinners(w)
  \/ RemoteCancel
  \/ RemoteFund
  \/ JoinInvoke
  \/ \E o \in ReadOutcomes : JoinBalanceRead(o)
  \/ \E o \in TxOutcomes : JoinApproveSettled(o)
  \/ \E o \in TxOutcomes : JoinTxSettled(o)
  \/ \E o \in DispatchOutcomes : JoinNotified(o)
  \/ SelectInvoke
  \/ \E o \in TxOutcomes, w \in WinnerLists(remote) \cup {<<>>}, d \in BOOLEAN :
        SelectTxSettled(o, w, d)
  \/ \E ok \in BOOLEAN : SelectFallbackRead(ok)
  \/ \E ok \in BOOLEAN : SelectParticipantsRead(ok)
  \/ CancelInvoke
  \/ \E o \in TxOutcomes : CancelTxSettled(o)
  \/ RefundInvoke
  \/ \E o \in TxOutcomes : RefundTxSettled(o)

Spec == Init /\ [][Next]_vars

\* the page opened on a paid token drop by its host or by another wallet
InitSettling ==
  /\ Init
  /\ remote.rewardType = "ERC20"

\* the page and its action handlers, with other wallets joining and the host cancelling
NextSettling ==
  \/ \E f \in BagToSet(fetches) : FetchReadInfo(f)
  \/ \E f \in BagToSet(fetches) : FetchReadParticipants(f)
  \/ \E e \in events : OnLogsRefetch(e)
  \/ \E e \in events : OnLogsWinnersSelected(e)
  \/ \E o \in DispatchOutcomes : WinnersSelectedDispatched(o)
  \/ NavigateAway
  \/ \E a \in Joiners : RemoteJoin(a)
  \/ RemoteCancel
  \/ JoinInvoke
  \/ \E o \in ReadOutcomes : JoinBalanceRead(o)
  \/ \E o \in TxOutcomes : JoinApproveSettled(o)
  \/ \E o \in TxOutcomes : JoinTxSettled(o)
  \/ \E o \in DispatchOutcomes : JoinNotified(o)
  \/ SelectInvoke
  \/ \E o \in TxOutcomes, w \in WinnerLists(remote) \cup {<<>>}, d \in BOOLEAN :
        SelectTxSettled(o, w, d)
  \/ \E ok \in BOOLEAN : SelectFallbackRead(ok)
  \/ \E ok \in BOOLEAN : SelectParticipantsRead(ok)
  \/ CancelInvoke
  \/ \E o \in TxOutcomes : CancelTxSettled(o)
  \/ RefundInvoke
  \/ \E o \in TxOutcomes : RefundTxSettled(o)

\* a remote request an action handler awaits
Settle ==
  \/ \E o \in ReadOutcomes : JoinBalanceRead(o)
  \/ \E o \in TxOutcomes : JoinApproveSettled(o)
  \/ \E o \in TxOutcomes : JoinTxSettled(o)
  \/ \E o \in DispatchOutcomes : JoinNotified(o)
  \/ \E o \in TxOutcomes, w \in WinnerLists(remote) \cup {<<>>}, d \in BOOLEAN :
        SelectTxSettled(o, w, d)
  \/ \E ok \in BOOLEAN : SelectFallbackRead(ok)
  \/ \E ok \in BOOLEAN : SelectParticipantsRead(ok)
  \/ \E o \in TxOutcomes : CancelTxSettled(o)
  \/ \E o \in TxOutcomes : RefundTxSettled(o)

\* the page, with every request of an action handler settling in the end: a settled
\* request stays settled, and its continuation runs once the bound on the calls in
\* flight lets it
SpecSettling == InitSettling /\ [][NextSettling]_vars /\ SF_vars(Settle)

\* ------------------------------------- reward and entry-fee formatters
\* formatUnits(value, decimals): value * 10^-decimals, written without the trailing
\* zeros of its fraction
RECURSIVE formatUnits(_, _)
formatUnits(value, decimals) ==
  IF decimals > 0 /\ value % 10 = 0 THEN formatUnits(value \div 10, decimals - 1)
  ELSE [digits |-> value, scale |-> decimals]

formatEther(value) == formatUnits(value, 18)

\* the catch of getTokenDecimals falling back to no decimals at all
DecimalsAfter_Zero(outcome) == IF outcome = -1 THEN 0 ELSE outcome

\* getTokenDecimals after its decimals() read settled (-1: the read failed)
DecimalsAfter(outcome) == IF outcome = -1 THEN 18 ELSE outcome

toUpperCase(sym) == IF sym \in {"Fireball", "FIREBALL"} THEN "FIREBALL" ELSE sym

\* let symbol = "Tokens"; try { symbol = await symbol() ... } catch {}
SymbolAfter(outcome) ==
  IF outcome = "fails" THEN "Tokens"
  ELSE IF toUpperCase(outcome) = "FIREBALL" THEN "fire-ball"
  ELSE outcome

TokenTypes == {"USDC", "ERC20"}
RewardTypes == {"ETH", "USDC", "ERC20", "NFT"}

Finished(fn, rawAmount, out) ==
  [IdleFmt EXCEPT !.fn = fn, !.pc = "done", !.rawAmount = rawAmount, !.out = out]

Thrown(fn, rawAmount) ==
  [IdleFmt EXCEPT !.fn = fn, !.pc = "done", !.rawAmount = rawAmount, !.threw = TRUE]

\* the token branch of a client formatter up to its first remote read:
\* getTokenDecimals answers 18 for the zero address without a read
TokenBranch(fn, rawAmount, tokenAddress) ==
  [IdleFmt EXCEPT !.fn = fn, !.rawAmount = rawAmount, !.token = tokenAddress,
                  !.pc = IF tokenAddress = ZERO THEN "symbol" ELSE "decimals",
                  !.decimals = IF tokenAddress = ZERO THEN 18 ELSE 0]

\* rewardTokenIds.length > 0 ? rewardTokenIds.length : numWinners
NftCount(numWinners, rewardTokenIds) ==
  IF Len(rewardTokenIds) > 0 THEN Len(rewardTokenIds) ELSE numWinners

\* formatRewardDisplay up to its first remote read or its return
formatRewardDisplay(rawAmount, rewardType, rewardTokenAddress, numWinners, rewardTokenIds) ==
  IF rewardType = "ETH"
    THEN Finished("formatRewardDisplay", rawAmount, Display(formatEther(rawAmount), "ETH"))
  ELSE IF rewardType \in TokenTypes
    THEN TokenBranch("formatRewardDisplay", rawAmount, rewardTokenAddress)
  ELSE IF rewardType = "NFT"
    THEN Finished("formatRewardDisplay", rawAmount,
                  Display(Plain(NftCount(numWinners, rewardTokenIds)), "NFT(s)"))
  ELSE Finished("formatRewardDisplay", rawAmount, Display(Plain(0), "N/A"))

\* formatEntryFeeDisplay up to its first remote read or its return
formatEntryFeeDisplay(rawAmount, isPaidEntry, dropRewardType, entryFeeTokenAddress) ==
  IF ~isPaidEntry \/ rawAmount = 0
    THEN Finished("formatEntryFeeDisplay", rawAmount, Display(Plain(0), "Free"))
  ELSE IF dropRewardType \in TokenTypes
    THEN TokenBranch("formatEntryFeeDisplay", rawAmount, entryFeeTokenAddress)
  ELSE Finished("formatEntryFeeDisplay", rawAmount, Display(formatEther(rawAmount), "ETH"))

\* formatRewardDisplayServer up to its first remote read, its return or its throw:
\* it needs the loaded modules, and getServerConfig needs the environment
formatRewardDisplayServer(rawAmount, currentRewardType, rewardTokenAddress, numWinners, rewardTokenIds) ==
  IF ~modulesLoaded THEN Thrown("formatRewardDisplayServer", rawAmount)
  ELSE IF currentRewardType = "ETH"
    THEN Finished("formatRewardDisplayServer", rawAmount,
                  Display(formatEther(rawAmount), "ETH"))
  ELSE IF currentRewardType \in TokenTypes
    THEN IF ~env THEN Thrown("formatRewardDisplayServer", rawAmount)
         ELSE TokenBranch("formatRewardDisplayServer", rawAmount, rewardTokenAddress)
  ELSE IF currentRewardType = "NFT"
    THEN Finished("formatRewardDisplayServer", rawAmount,
                  Display(Plain(NftCount(numWinners, rewardTokenIds)), "NFT(s)"))
  ELSE Finished("formatRewardDisplayServer", rawAmount, Display(Plain(0), "N/A"))

\* entryFeeTokenForFormatting of fetchAndSetDropInfo
entryFeeTokenForFormatting(t) ==
  IF t[12] /\ t[6] \in TokenTypes THEN t[5] ELSE ZERO

Formatters == {"formatRewardDisplay", "formatEntryFeeDisplay", "formatRewardDisplayServer"}

\* a formatter is called with the fields of the drop the contract holds
FormatCall(fn) ==
  /\ fmt.pc \in {"idle", "done"}
  /\ LET t == getDropInfo(remote) IN
     fmt' = CASE fn = "formatRewardDisplay" ->
                   formatRewardDisplay(t[4], t[6], t[5], t[15], t[7])
              [] fn = "formatEntryFeeDisplay" ->
                   formatEntryFeeDisplay(t[3], t[12], t[6], entryFeeTokenForFormatting(t))
              [] fn = "formatRewardDisplayServer" ->
                   formatRewardDisplayServer(t[4], t[6], t[5], t[15], t[7])
  /\ UNCHANGED <<pageVars, serverVars, profileCalls, form, modulesLoaded, env, frameVars>>

DecimalsOutcomes == {6, -1}            \* what decimals() answers; -1: the read fails

\* the decimals() read of getTokenDecimals settles
DecimalsSettled(outcome) ==
  /\ fmt.pc = "decimals"
  /\ fmt' = [fmt EXCEPT !.pc = "symbol", !.decimals = DecimalsAfter(outcome),
                        !.decimalsFailed = (outcome = -1)]
  /\ UNCHANGED <<pageVars, serverVars, profileCalls, form, modulesLoaded, env, frameVars>>

SymbolOutcomes == {"USDC", "Fireball", "fails"}

\* the formatter call once its symbol() read has settled
SymbolReturn(outcome) ==
  [fmt EXCEPT !.pc = "done", !.symbolFailed = (outcome = "fails"),
              !.out = Display(formatUnits(fmt.rawAmount, fmt.decimals), SymbolAfter(outcome))]

\* the symbol() read settles and the formatter returns to the page
SymbolSettled(outcome) ==
  /\ fmt.pc = "symbol" /\ frame.pc # "formatting"
  /\ fmt' = SymbolReturn(outcome)
  /\ UNCHANGED <<pageVars, serverVars, profileCalls, form, modulesLoaded, env, frameVars>>

\* the page is not open
PageClosed ==
  /\ events = {}
  /\ address = "0xu"
  /\ route = "available"
  /\ dropInfo = Null
  /\ participants = <<>>
  /\ actionInProgress = FALSE
  /\ error = ""
  /\ isCancelledForUI = FALSE
  /\ winnerIndices = <<>>
  /\ watchers = {}
  /\ fetches = EmptyBag
  /\ act = IdleAct
  /\ winnersHandler = "idle"
  /\ toastMsg = ""

\* the drops the formatters are given
FormatDrops ==
  { [NewRemoteDrop([isPaidEntry |-> p, rewardType |-> ty, isSponsored |-> FALSE,
                    numWinners |-> n])
       EXCEPT !.rewardAmount = a, !.entryFee = f,
              !.rewardToken = tk, !.rewardTokenIds = ids] :
      p \in BOOLEAN, ty \in RewardTypes, n \in {2}, a \in {0, 1500000}, f \in {0, 25},
      tk \in {ZERO, TokenAddr}, ids \in {<<>>, <<7, 8, 9>>} }

InitFormat ==
  /\ remote \in {r \in FormatDrops :
                   /\ r.rewardType = "ETH" => r.rewardToken = ZERO
                   /\ r.rewardType # "NFT" => r.rewardTokenIds = <<>>
                   /\ ~r.isPaidEntry => r.entryFee = 0}
  /\ PageClosed
  /\ ServerIdle
  /\ apiKey = TRUE
  /\ directory = [a \in People |-> FidOf(a)]
  /\ fmt = IdleFmt
  /\ modulesLoaded \in BOOLEAN
  /\ env \in BOOLEAN
  /\ frame = IdleFrame /\ frameRes = Null
  /\ NoProfileCalls
  /\ form = InitialForm

NextFormat ==
  \/ \E fn \in Formatters : FormatCall(fn)
  \/ \E o \in DecimalsOutcomes : DecimalsSettled(o)
  \/ \E o \in SymbolOutcomes : SymbolSettled(o)

SpecFormat == InitFormat /\ [][NextFormat]_vars

\* ------------------------------------------------------ api/frame-handler
\* req.query.dropId: a string of digits, another string, or no string at all
Queries == {"7", "12", "1e3", "", "undefined"}

\* typeof dropId === "string" && /^\d+$/.test(dropId)
IsDropId(q) == q \in {"7", "12"}

\* serveOriginalIndex: index.html as it is on disk, or 500 when it cannot be read
serveOriginalIndex(readOk) ==
  IF readOk THEN <<[status |-> 200, page |-> "index.html", meta |-> <<>>]>>
  ELSE <<[status |-> 500, page |-> "Critical error serving fallback", meta |-> <<>>]>>

\* dropData ? dropData.rewardAmountFormatted : "an exciting prize"
prizeDescription(dropData) ==
  IF dropData = Null THEN Display(Plain(0), "an exciting prize") ELSE dropData[1]

\* the rest of the handler's try block once dropData is known: index.html with the frame
\* and og meta tags in it, or the catch when reading index.html throws
Inject(q, dropData, readOk, fallbackReadOk) ==
  IF readOk
    THEN <<[status |-> 200, page |-> "index.html",
            meta |-> <<[dropId |-> q, prize |-> prizeDescription(dropData)]>>]>>
    ELSE serveOriginalIndex(fallbackReadOk)

\* the handler responds and returns
FrameDone(failure, response) ==
  /\ frame' = [frame EXCEPT !.pc = "done",
                            !.failure = IF failure = "" /\ response[1].meta = <<>>
                                          THEN "inject" ELSE failure]
  /\ frameRes' = response

\* a request reaches the handler, which awaits ensureModulesLoaded
FrameRequest(q) ==
  /\ frame.pc \in {"idle", "done", "rejected"}
  /\ frame' = [pc |-> "loading", dropId |-> q, failure |-> ""]
  /\ frameRes' = Null
  /\ UNCHANGED <<pageVars, serverVars, profileCalls, form, fmt, modulesLoaded, env>>

\* ensureModulesLoaded settles (outside the handler's try); then the drop id test and
\* getMinimalDropDataForFrame up to its getDropInfo read
FrameModulesSettled(ok, readOk, fallbackReadOk) ==
  /\ frame.pc = "loading"
  /\ IF ~modulesLoaded /\ ~ok
       THEN /\ frame' = [frame EXCEPT !.pc = "rejected", !.failure = "modules"]
            /\ UNCHANGED <<frameRes, modulesLoaded>>
       ELSE /\ modulesLoaded' = TRUE
            /\ IF ~IsDropId(frame.dropId)
                 THEN FrameDone("dropId", serveOriginalIndex(readOk))
               ELSE IF ~env
                 THEN FrameDone("read", Inject(frame.dropId, Null, readOk, fallbackReadOk))
               ELSE /\ frame' = [frame EXCEPT !.pc = "reading"]
                    /\ UNCHANGED frameRes
  /\ UNCHANGED <<pageVars, serverVars, profileCalls, form, fmt, env>>

\* the getDropInfo read settles; formatRewardDisplayServer runs up to its first read
FrameDropRead(ok, readOk, fallbackReadOk) ==
  /\ frame.pc = "reading"
  /\ IF ~ok
       THEN /\ FrameDone("read", Inject(frame.dropId, Null, readOk, fallbackReadOk))
            /\ UNCHANGED fmt
       ELSE LET t == getDropInfo(remote)
                call == formatRewardDisplayServer(t[4], t[6], t[5], t[15], t[7])
            IN
            /\ fmt' = call
            /\ IF call.pc # "done"
                 THEN /\ frame' = [frame EXCEPT !.pc = "formatting"]
                      /\ UNCHANGED frameRes
               ELSE IF call.threw
                 THEN FrameDone("format", Inject(frame.dropId, Null, readOk, fallbackReadOk))
               ELSE FrameDone("", Inject(frame.dropId, <<call.out>>, readOk, fallbackReadOk))
  /\ UNCHANGED <<pageVars, serverVars, profileCalls, form, modulesLoaded, env>>

\* the symbol() read of formatRewardDisplayServer settles and the handler builds its page
FrameSymbolSettled(outcome, readOk, fallbackReadOk) ==
  /\ frame.pc = "formatting" /\ fmt.pc = "symbol"
  /\ fmt' = SymbolReturn(outcome)
  /\ FrameDone("", Inject(frame.dropId, <<fmt'.out>>, readOk, fallbackReadOk))
  /\ UNCHANGED <<pageVars, serverVars, profileCalls, form, modulesLoaded, env>>

\* the server process before its first request: no module is imported yet
InitFrame ==
  /\ remote \in {r \in FormatDrops :
                   /\ r.rewardType = "ETH" => r.rewardToken = ZERO
                   /\ r.rewardType # "NFT" => r.rewardTokenIds = <<>>
                   /\ r.rewardType \in TokenTypes => r.rewardToken = TokenAddr
                   /\ r.isPaidEntry /\ r.entryFee = 25}
  /\ PageClosed
  /\ ServerIdle
  /\ apiKey = TRUE
  /\ directory = [a \in People |-> FidOf(a)]
  /\ fmt = IdleFmt
  /\ modulesLoaded = FALSE
  /\ env \in BOOLEAN
  /\ frame = IdleFrame /\ frameRes = Null
  /\ NoProfileCalls
  /\ form = InitialForm

NextFrame ==
  \/ \E q \in Queries : FrameRequest(q)
  \/ \E ok, r1, r2 \in BOOLEAN : FrameModulesSettled(ok, r1, r2)
  \/ \E ok, r1, r2 \in BOOLEAN : FrameDropRead(ok, r1, r2)
  \/ \E o \in DecimalsOutcomes : DecimalsSettled(o)
  \/ \E o \in SymbolOutcomes, r1, r2 \in BOOLEAN : FrameSymbolSettled(o, r1, r2)

SpecFrame == InitFrame /\ [][NextFrame]_vars

\* ---------------------------------- concurrent fetchFarcasterProfiles calls
\* the address lists the calls are given
AddressLists == {<<>>, <<"0xu">>, <<UserAddr, "0xo">>}

\* everything of the notification server but the cache, the key and the directory
notificationVars == <<notificationData, handler, profiles, targetFids, posted, result, req, res>>

\* fetchFarcasterProfiles is called: the cached results, and the request for the chunk of
\* uncached addresses (CHUNK_SIZE is 50: one chunk)
ProfilesCall(i, addresses) ==
  /\ calls[i].pc \in {"idle", "done"}
  /\ LET uniqueAddresses == {getAddress(addresses[k]) : k \in 1..Len(addresses)}
         cached == {a \in uniqueAddresses : profileCache[a] # NotCached}
         toFetch == uniqueAddresses \ cached
     IN
     calls' = [calls EXCEPT ![i] =
                 IF Len(addresses) = 0 \/ ~apiKey
                   THEN [pc |-> "done", chunk |-> {}, results |-> NoProfiles]
                   ELSE [pc |-> IF toFetch = {} THEN "done" ELSE "fetching",
                         chunk |-> toFetch,
                         results |-> [a \in cached |-> profileCache[a]]]]
  /\ UNCHANGED <<profileCache, cacheWrites, apiKey, directory, notificationVars, pageVars,
                 fmt, modulesLoaded, env, frameVars, form>>

\* the addresses a response makes profileCache.set store, with the value stored:
\* the not-OK branch skips the addresses the cache has by then, the OK branch does not
Stored(chunk, outcome, emptyLists) ==
  IF outcome = "throws" THEN NoProfiles
  ELSE IF outcome = "notOk"
    THEN [a \in {x \in chunk : profileCache[x] = NotCached} |-> 0]
  ELSE [a \in {x \in chunk : directory[x] # 0 \/ emptyLists} |-> directory[a]]

\* the bulk-by-address request of a call settles, and the call returns
ProfilesResponse(i, outcome, emptyLists) ==
  /\ calls[i].pc = "fetching"
  /\ LET stored == Stored(calls[i].chunk, outcome, emptyLists)
         found == {a \in DOMAIN stored : stored[a] # 0}
     IN
     /\ profileCache' = [a \in People |->
                           IF a \in DOMAIN stored THEN stored[a] ELSE profileCache[a]]
     /\ cacheWrites' = [a \in People |->
                           IF a \in DOMAIN stored THEN Append(cacheWrites[a], stored[a])
                           ELSE cacheWrites[a]]
     /\ calls' = [calls EXCEPT ![i].pc = "done",
                               ![i].results =
                                  IF outcome = "ok"
                                    THEN [a \in DOMAIN calls[i].results \cup found |->
                                            IF a \in found THEN stored[a]
                                            ELSE calls[i].results[a]]
                                    ELSE calls[i].results]
  /\ UNCHANGED <<apiKey, directory, notificationVars, pageVars,
                 fmt, modulesLoaded, env, frameVars, form>>

InitProfiles ==
  /\ remote = NewRemoteDrop(CHOOSE c \in InitialConfigs : c.numWinners = 2)
  /\ PageClosed
  /\ ServerIdle
  /\ FormatIdle
  /\ apiKey \in BOOLEAN
  /\ directory \in Directories

NextProfiles ==
  \/ \E i \in 1..MaxCalls, l \in AddressLists : ProfilesCall(i, l)
  \/ \E i \in 1..MaxCalls, o \in LookupOutcomes, e \in BOOLEAN : ProfilesResponse(i, o, e)

SpecProfiles == InitProfiles /\ [][NextProfiles]_vars

\* ------------------------------------------------- joins and their payment
\* the drops a wallet joins: paid in ETH or in a token (the local record may hold a zero
\* fee), or free (host-funded, also with an NFT reward)
JoinDrops ==
  { [NewRemoteDrop([isPaidEntry |-> p, rewardType |-> ty, isSponsored |-> FALSE,
                    numWinners |-> 1])
       EXCEPT !.entryFee = f] :
      p \in BOOLEAN, ty \in RewardTypes, f \in {0, 1} }

InitJoin ==
  /\ remote \in {r \in JoinDrops : /\ ~r.isPaidEntry => r.entryFee = 0
                                   /\ r.rewardType = "NFT" => ~r.isPaidEntry}
  /\ events = {}
  /\ address = "0xu"
  /\ route = "drop"
  /\ dropInfo = Null
  /\ participants = <<>>
  /\ actionInProgress = FALSE
  /\ error = ""
  /\ isCancelledForUI = FALSE
  /\ winnerIndices = <<>>
  /\ watchers = AllWatchers
  /\ fetches = SetToBag({Called})
  /\ act = IdleAct
  /\ winnersHandler = "idle"
  /\ toastMsg = ""
  /\ ServerIdle
  /\ FormatIdle
  /\ apiKey = TRUE
  /\ directory = [a \in People |-> FidOf(a)]

NextJoin ==
  \/ \E f \in BagToSet(fetches) : FetchReadInfo(f)
  \/ \E f \in BagToSet(fetches) : FetchReadParticipants(f)
  \/ \E e \in events : OnLogsRefetch(e)
  \/ JoinInvoke
  \/ \E o \in ReadOutcomes : JoinBalanceRead(o)
  \/ \E o \in TxOutcomes : JoinApproveSettled(o)
  \/ \E o \in TxOutcomes : JoinTxSettled(o)
  \/ \E o \in DispatchOutcomes : JoinNotified(o)

SpecJoin == InitJoin /\ [][NextJoin]_vars

\* ------------------------------------------------------- the page left alone
\* the page is opened on a drop; afterwards no event arrives and the user does nothing
InitQuiet ==
  /\ remote \in {r \in FormatDrops :
                   /\ r.rewardType = "ETH" => r.rewardToken = ZERO
                   /\ r.rewardType # "NFT" => r.rewardTokenIds = <<>>
                   /\ r.rewardType \in TokenTypes => r.rewardToken = TokenAddr
                   /\ r.isPaidEntry = (r.entryFee = 25)}
  /\ events = {}
  /\ address \in Wallets
  /\ route = "drop"
  /\ dropInfo = Null
  /\ participants = <<>>
  /\ actionInProgress = FALSE
  /\ error = ""
  /\ isCancelledForUI = FALSE
  /\ winnerIndices = <<>>
  /\ watchers = AllWatchers
  /\ fetches = SetToBag({Called})
  /\ act = IdleAct
  /\ winnersHandler = "idle"
  /\ toastMsg = ""
  /\ ServerIdle
  /\ FormatIdle
  /\ apiKey = TRUE
  /\ directory = [a \in People |-> FidOf(a)]

NextQuiet ==
  \/ \E f \in BagToSet(fetches) : FetchReadInfo(f)
  \/ \E f \in BagToSet(fetches) : FetchReadParticipants(f)

\* every remote read that was requested settles
SpecQuiet ==
  /\ InitQuiet /\ [][NextQuiet]_vars
  /\ WF_vars(\E f \in BagToSet(fetches) : FetchReadInfo(f))
  /\ WF_vars(\E f \in BagToSet(fetches) : FetchReadParticipants(f))

\* ------------------------------------------------------------- properties
\* a step in which fetchAndSetDropInfo is called
FetchCalledStep == CopiesIn(Called, fetches') > CopiesIn(Called, fetches)

\* C1: after every refetch that replaces the local DropRecord, the record has
\* currentParticipants <= maxParticipants.
C1_ParticipantsWithinCapacity ==
  dropInfo # Null => dropInfo[1].currentParticipants <= dropInfo[1].maxParticipants

C1_Witness ==
  /\ dropInfo # Null
  /\ dropInfo[1].currentParticipants > 0
  /\ dropInfo[1].currentParticipants = Len(participants)

\* C2: in every local state, after any refetches and winner write-backs, a
\* DropRecord with a non-empty winners list is completed and not active.
C2_WinnersImplyCompleted ==
  (dropInfo # Null /\ Len(dropInfo[1].winners) > 0)
    => (dropInfo[1].isCompleted /\ ~dropInfo[1].isActive)

\* a record with winners whose participant count is older than the remote's: a
\* refetch that reads winners reads the final count, so the write-back made it
C2_Witness ==
  /\ dropInfo # Null
  /\ Len(dropInfo[1].winners) > 0
  /\ dropInfo[1].isCompleted /\ ~dropInfo[1].isActive
  /\ dropInfo[1].currentParticipants < Len(getDropParticipants(remote))

\* C3: whenever the local DropRecord is completed, not active and without winners,
\* the flag set by the refetch, uiIsEffectivelyCancelled, the status label and the
\* action buttons all classify it as cancelled.
C3_CancelledEverywhere ==
  (dropInfo # Null /\ dropInfo[1].isCompleted /\ ~dropInfo[1].isActive
     /\ Len(dropInfo[1].winners) = 0)
    => /\ isCancelledForUI
       /\ uiIsEffectivelyCancelled(dropInfo[1])
       /\ StatusLabel(dropInfo[1]) = "Cancelled"
       /\ ~JoinButtonShown(dropInfo[1])
       /\ ~CancelButtonShown(dropInfo[1], address)
       /\ (dropInfo[1].isPaidEntry /\ isUserParticipant(participants, address)
             => RefundButtonShown(dropInfo[1], participants, address))

\* C4: joinDrop invoked with the host's address, in any letter case, is rejected
\* by the gate: the handler never gets past it and no remote write is requested.
C4_HostJoinRejected ==
  (dropInfo # Null /\ getAddress(dropInfo[1].host) = getAddress(address))
    => (act.kind # "join" /\ act.writes \cap {"approve", "joinDrop"} = {})

C4_Witness ==
  /\ toastMsg = "As the host, you cannot join your own drop."
  /\ address # dropInfo[1].host
  /\ getAddress(address) = getAddress(dropInfo[1].host)
  /\ act = IdleAct

\* C5: a joinDrop attempt made after the same address joined through a confirmed
\* joinDrop transaction requests no remote write.
C5_SecondJoinRejected ==
  (act.kind = "join" /\ act.afterJoin) => act.writes = {}

\* C6: selectWinnersManually invoked while the local DropRecord has
\* currentParticipants < numWinners requests no write and surfaces an error.
SelectInvokeStep ==
  /\ act.pc = "idle" /\ dropInfo # Null /\ address # ""
  /\ \/ act'.kind = "select"
     \/ toastMsg' \in {"Not enough participants.", "Drop is not active.",
                       "Drop is already completed."}

C6_TooFewParticipantsRejected ==
  [][ (SelectInvokeStep /\ dropInfo[1].currentParticipants < dropInfo[1].numWinners)
        => /\ act' = IdleAct
           /\ error' = "Not enough participants."
           /\ toastMsg' = "Not enough participants."
           /\ ~actionInProgress' ]_vars

C6_Witness ==
  /\ error = "Not enough participants."
  /\ toastMsg = "Not enough participants."
  /\ act = IdleAct
  /\ dropInfo # Null
  /\ dropInfo[1].currentParticipants < dropInfo[1].numWinners
  /\ dropInfo[1].isActive

\* C7: once the notification dispatch of an observed WinnersSelected event settles,
\* with any outcome, the refetch is called.
C7_RefetchAfterDispatch ==
  [][ (winnersHandler = "dispatching" /\ winnersHandler' = "idle") => FetchCalledStep ]_vars

\* C8: every observed event of the viewed drop calls the refetch, whatever the
\* local state, and events of another drop do not pass the dropId test.
C8_EveryMatchingEventRefetches ==
  [][ /\ ~Matches(ViewId + 1)
      /\ (\E e \in events : Matches(e.dropId) /\ events' = events \ {e})
           => (FetchCalledStep \/ winnersHandler' = "dispatching")
      /\ (winnersHandler = "dispatching" /\ winnersHandler' = "idle")
           => FetchCalledStep ]_vars

\* C9: when nothing is in flight any more (no refetch, no undelivered event, no
\* action, no callback), the local DropRecord and participant list are the remote ones.
NothingInFlight ==
  /\ route = "drop"
  /\ fetches = EmptyBag
  /\ events = {}
  /\ act.pc = "idle"
  /\ winnersHandler = "idle"

C9_EventuallyConsistent ==
  (NothingInFlight /\ dropInfo # Null)
    => /\ dropInfo[1] = NewDropInfoState(ViewId, getDropInfo(remote))
       /\ participants = participantList(getDropParticipants(remote))

\* C10: once the local winners list is non-empty it keeps the same ordered list.
C10_WinnersImmutable ==
  [][ (dropInfo # Null /\ Len(dropInfo[1].winners) > 0)
        => (dropInfo' # Null /\ dropInfo'[1].winners = dropInfo[1].winners) ]_vars

\* ------------------------------------------ properties of the notifications
\* the running or latest call is for this category and past its identity lookup
Looked(category) ==
  /\ notificationData.category = category
  /\ handler # "profiles"
  /\ ~(handler = "idle" /\ result = Null)

\* every entry of winnerAddresses is an address (in either letter case)
ValidWinners ==
  /\ IsArray(notificationData.winnerAddresses)
  /\ \A i \in 1..Len(notificationData.winnerAddresses) :
       isAddress(notificationData.winnerAddresses[i])

\* the FIDs the identity lookup of this call resolved for the winner addresses
ResolvedWinnerFids ==
  { profiles[a] : a \in { b \in DOMAIN profiles :
      /\ profiles[b] # 0
      /\ \E i \in 1..Len(notificationData.winnerAddresses) :
           getAddress(notificationData.winnerAddresses[i]) = b } }

\* C12: a winners-selected call in which no winner address resolves to a FID returns
\* {success: false} and makes no request to the notification API.
C12_NoWinnerFidsNoSend ==
  (Looked("winners-selected") /\ ValidWinners /\ notificationData.dropId # NoDropId
     /\ ResolvedWinnerFids = {})
    => /\ posted = <<>>
       /\ handler = "idle"
       /\ ~result[1].threw /\ ~result[1].success

C12_Witness ==
  /\ Looked("winners-selected") /\ ValidWinners
  /\ Len(notificationData.winnerAddresses) > 0
  /\ apiKey
  /\ ResolvedWinnerFids = {}
  /\ result = Failure("No valid FIDs for winners")
  /\ posted = <<>>

\* C18: the game-joined notification posted for the body joinDrop builds targets the
\* host's FID and the participant's FID whenever the identity lookup resolves them.
C18_JoinedAudience ==
  (Looked("game-joined") /\ posted # <<>>
     /\ notificationData = JoinPayload(notificationData.participantAddress)
     /\ profiles = [a \in addressesToFetch(notificationData) |-> directory[a]])
    => /\ directory[remote.host] # 0 => directory[remote.host] \in Range(posted[1])
       /\ LET p == getAddress(notificationData.participantAddress) IN
          directory[p] # 0 => directory[p] \in Range(posted[1])

\* C19: the target FIDs of a winners-selected notification are exactly the FIDs the
\* lookup resolved for the winner addresses, given in either letter case.
C19_WinnersAudience ==
  (Looked("winners-selected") /\ ValidWinners /\ notificationData.dropId # NoDropId)
    => /\ posted # <<>> => Range(posted[1]) = ResolvedWinnerFids
       /\ (ResolvedWinnerFids # {} /\ apiKey) => posted # <<>>

C19_Witness ==
  /\ Looked("winners-selected")
  /\ notificationData.winnerAddresses = <<"0xu", OtherAddr>>
  /\ posted = << <<FidOf(UserAddr), FidOf(OtherAddr)>> >>
  /\ result = Returned(TRUE, <<"Notification sent">>)

\* C20: every call of handleNotificationLogic ends by returning a value
\* {success, message}; a failure of any kind is returned with success false, never thrown.
C20_NeverThrows ==
  (handler = "idle" /\ result # Null)
    => /\ ~result[1].threw
       /\ result[1].success \in BOOLEAN
       /\ Len(result[1].message) > 0
       /\ result[1].success => posted # <<>>

C20_Witness ==
  /\ ~apiKey
  /\ notificationData.category = "game-joined"
  /\ handler = "idle"
  /\ result = Caught("Neynar API key missing")

\* C13: a getDropInfo read that returns a sponsored, active drop whose sponsor is the
\* zero address does not become the local record: the fetcher sets the error
\* "Unfunded sponsored game", navigates to /available and leaves dropInfo as it was;
\* the local record is never a sponsored active drop without a sponsor.
C13_UnfundedNotRendered ==
  [][ /\ ( /\ route = "drop" /\ ~NavigateAway
           /\ remote.isSponsored /\ remote.sponsor = ZERO /\ remote.isActive
           /\ CopiesIn(Called, fetches') < CopiesIn(Called, fetches) )
        => /\ dropInfo' = dropInfo
           /\ BagCardinality(fetches') < BagCardinality(fetches)
           /\ \/ error' = "Failed to fetch drop info"
              \/ error' = "Unfunded sponsored game" /\ route' = "available"
      /\ dropInfo' # Null
        => ~(dropInfo'[1].isSponsored /\ dropInfo'[1].sponsor = ZERO /\ dropInfo'[1].isActive)
    ]_vars

C13_Witness ==
  /\ remote.isSponsored /\ remote.sponsor = ZERO /\ remote.isActive
  /\ error = "Unfunded sponsored game"
  /\ route = "available"
  /\ dropInfo = Null
  /\ fetches = EmptyBag

\* C11: the live subscriptions are at most the four of the viewed drop id, none is
\* live once the page is discarded, and once the subscriptions are unwatched no
\* callback of theirs calls fetchAndSetDropInfo.
C11_NoSubscriptionOutlivesView ==
  [][ /\ watchers' \subseteq AllWatchers
      /\ route' # "drop" => watchers' = {}
      /\ watchers = {} => ~FetchCalledStep
    ]_vars

\* C15: once the joinDrop transaction is confirmed, the step in which the game-joined
\* notification settles, whether it succeeded, was answered non-OK or threw, does not
\* set the error state, calls the refetch and ends the action.
C15_NotificationFailureKeepsJoin ==
  [][ (act.kind = "join" /\ act.pc = "notify" /\ act' # act /\ ~NavigateAway)
        => /\ error' = error
           /\ FetchCalledStep
           /\ act' = IdleAct
           /\ ~actionInProgress'
    ]_vars

C15_Witness ==
  /\ route = "drop" /\ act = IdleAct /\ ~actionInProgress
  /\ UserJoinedRemote
  /\ ~isUserParticipant(participants, address)
  /\ error = ""
  /\ BagIn(Called, fetches)

\* C14: in a join of a token-paid drop nothing is written while the balance is being
\* read, a write is requested only with a balance of at least the raw entry fee, the
\* approve receipt is obtained only for a requested approve, and joinDrop is requested
\* only after approve was requested and its receipt obtained.
C14_TokenJoinOrdered ==
  (act.kind = "join" /\ act.info[1].isPaidEntry /\ act.info[1].rewardType \in {"ERC20", "USDC"})
    => /\ act.pc = "balance" => act.writes = {} /\ act.receipts = {}
       /\ act.writes # {} => act.balance >= act.info[1].rawEntryFee
       /\ act.pc = "approveTx" => act.writes = {"approve"} /\ act.receipts = {}
       /\ "approve" \in act.receipts => "approve" \in act.writes
       /\ "joinDrop" \in act.writes
            => "approve" \in act.writes /\ "approve" \in act.receipts

C14_Witness ==
  /\ act.kind = "join" /\ act.pc = "joinTx"
  /\ act.info[1].isPaidEntry /\ act.info[1].rewardType = "ERC20"
  /\ act.balance = act.info[1].rawEntryFee
  /\ act.writes = {"approve", "joinDrop"}
  /\ act.receipts = {"approve"}

\* C16: in selectWinnersManually, once the receipt is there, the winner list is the one
\* of the WinnersSelected log of the transaction; when no winners were decoded it is
\* the winners field of a fresh getDropInfo read; and when the action returns, the
\* stored winnerIndices are the positions of those winners in the participant list
\* the contract holds at that moment.
C16_WinnersThenIndices ==
  [][ (act.kind = "select" /\ ~NavigateAway)
        => /\ (act.pc = "selectTx" /\ act'.pc = "participants")
                => act'.winners = remote'.winners /\ act'.winners # <<>>
           /\ (act.pc = "selectTx" /\ act'.pc = "fallback") => act'.winners = <<>>
           /\ (act.pc = "fallback" /\ act'.pc = "participants")
                => act'.winners = remote.winners
           /\ (act.pc = "participants" /\ act' = IdleAct /\ error' = error)
                => /\ Len(winnerIndices') = Len(act.winners)
                   /\ \A k \in 1..Len(act.winners) :
                        /\ winnerIndices'[k] \in 0..(Len(remote.participants) - 1)
                        /\ remote.participants[winnerIndices'[k] + 1] = act.winners[k]
                   /\ dropInfo # Null => dropInfo'[1].winners = act.winners
    ]_vars

C16_Witness ==
  /\ route = "drop" /\ act = IdleAct /\ dropInfo # Null
  /\ dropInfo[1].winners = remote.winners
  /\ Len(winnerIndices) = 1
  /\ winnerIndices[1] >= Len(participants)
  /\ remote.participants[winnerIndices[1] + 1] = remote.winners[1]

\* C17: while the page is shown, dropInfo changes only in a step in which a refetch
\* that read successfully replaces the whole record, or in the winner write-back of a
\* selectWinnersManually whose transaction succeeded; joinDrop, cancelDrop,
\* claimRefund, the event callbacks and failed actions leave it as it is.
C17_DropInfoWriters ==
  [][ (dropInfo' # dropInfo /\ ~NavigateAway)
        => \/ \E f \in BagToSet(fetches) :
                /\ f.st = "read2"
                /\ dropInfo' = <<NewDropInfoState(ViewId, f.tuple)>>
                /\ act' = act
           \/ /\ act.kind = "select" /\ act.pc = "participants"
              /\ act.status = "success"
              /\ dropInfo # Null
              /\ dropInfo' = <<[dropInfo[1] EXCEPT !.winners = act.winners,
                                                   !.isCompleted = TRUE,
                                                   !.isActive = FALSE]>>
    ]_vars

\* ------------------------------------------------ properties of the endpoint

\* C21: the endpoint answers every request it has finished with a body {success, message}
\* and a status that is 405 for a method other than POST, 400 for a POST whose body is
\* missing or carries no category, 200 exactly when the dispatch result has success = true
\* and 500 for every other dispatch outcome; it sends nothing while the dispatch runs.
C21_EndpointStatus ==
  /\ req = Null => res = Null
  /\ handler # "idle" => res = Null
  /\ (req # Null /\ handler = "idle") =>
       /\ res # Null
       /\ DOMAIN res[1] = {"status", "success", "message"}
       /\ res[1].success \in BOOLEAN
       /\ IF req[1].method # "POST"
            THEN res[1].status = 405 /\ ~res[1].success
          ELSE IF req[1].body = <<>> \/ req[1].body[1].category \in {Absent, ""}
            THEN res[1].status = 400 /\ ~res[1].success
          ELSE /\ result # Null
               /\ res[1].status = (IF ~result[1].threw /\ result[1].success THEN 200 ELSE 500)
               /\ res[1].success = (res[1].status = 200)

\* a POST that carried a category was dispatched, its notification sent, and answered 200
C21_Witness ==
  /\ handler = "idle"
  /\ req # Null /\ req[1].method = "POST" /\ req[1].body # <<>>
  /\ res # Null /\ res[1].status = 200
  /\ result = Returned(TRUE, <<"Notification sent">>)
  /\ Len(posted) = 1

\* ------------------------------------------------ properties of the formatters

\* C24: when the symbol read of a formatter call failed the formatted text ends in "Tokens",
\* when its decimals read failed the amount is written with 18 decimals, and in neither
\* case the call throws; for formatRewardDisplay, formatEntryFeeDisplay and
\* formatRewardDisplayServer alike.
C24_LookupDefaults ==
  /\ fmt.decimalsFailed => fmt.decimals = 18 /\ ~fmt.threw
  /\ (fmt.pc = "done" /\ fmt.symbolFailed) => fmt.out.suffix = "Tokens" /\ ~fmt.threw
  /\ (fmt.pc = "done" /\ fmt.decimalsFailed) =>
       /\ fmt.out.digits = formatUnits(fmt.rawAmount, 18).digits
       /\ fmt.out.scale = formatUnits(fmt.rawAmount, 18).scale

\* the server-side formatter returned after both reads of a token had failed
C24_Witness ==
  /\ fmt.fn = "formatRewardDisplayServer" /\ fmt.pc = "done"
  /\ fmt.decimalsFailed /\ fmt.symbolFailed
  /\ fmt.rawAmount = 1500000
  /\ fmt.out = [digits |-> 15, scale |-> 13, suffix |-> "Tokens"]

\* --------------------------------------------- properties of the frame handler

\* C22: whenever a request to the frame handler met a failure (a malformed drop id, a failed
\* drop read or reward formatting, a module that did not load, an injection that threw),
\* the response is the original index.html with no injected metadata.
C22_FallbackOnFailure ==
  (frame.pc \in {"done", "rejected"} /\ frame.failure # "")
    => frameRes = <<[status |-> 200, page |-> "index.html", meta |-> <<>>]>>

\* --------------------------------------------- properties of the profile cache

\* C23: each address key of profileCache is written at most once in the life of the
\* process, and every write to it stores the same value, however the concurrent
\* fetchFarcasterProfiles calls interleave and whether their lookups fail or succeed.
C23_WrittenOnce ==
  \A a \in People :
    /\ Len(cacheWrites[a]) <= 1
    /\ \A j, k \in 1..Len(cacheWrites[a]) : cacheWrites[a][j] = cacheWrites[a][k]

\* ------------------------------------------- properties of winner highlighting

\* C25: after a refetch has stored a drop record, and after selectWinnersManually has
\* returned, winnerIndices are exactly the participant positions of the stored winners
\* that match a participant, in winner order, the whole winner list is in dropInfo.winners,
\* and no index computed from an earlier winner list is kept.
C25_WinnerIndicesFresh ==
  [][ ~NavigateAway =>
        /\ ((\E f \in BagToSet(fetches) : FetchReadParticipants(f))
              /\ BagCardinality(fetches') = BagCardinality(fetches))
             => /\ dropInfo' # Null
                /\ winnerIndices' = indicesOf(dropInfo'[1].winners,
                                              participantAddresses(participants'))
        /\ ((\E ok \in BOOLEAN : SelectParticipantsRead(ok)) /\ toastMsg' = "")
             => /\ winnerIndices' = indicesOf(act.winners, getDropParticipants(remote))
                /\ dropInfo' # Null => dropInfo'[1].winners = act.winners
    ]_vars

\* ------------------------------------------------ properties of the join payment

C27_RefreshQuiesces == <>[](fetches = EmptyBag)

\* ------------------------------------------------ properties of the action handlers

\* C28: when selectWinnersManually returns without an error, the record it leaves is not
\* in the cancelled classification: if its write-back marked the record completed and
\* inactive, the winners it stored are not empty.
C28_SelectNeverCancels ==
  [][ ((\E ok \in BOOLEAN : SelectParticipantsRead(ok)) /\ toastMsg' = "" /\ dropInfo' # Null)
        => /\ ~uiIsEffectivelyCancelled(dropInfo'[1])
           /\ (dropInfo'[1].isCompleted /\ ~dropInfo'[1].isActive)
                => dropInfo'[1].winners # <<>>
    ]_vars

FundingTypes == {"host-funded", "participant-paid"}

\* the dependency arrays of the two effects, as a render evaluates them
rewardTypeDeps(f) == <<f.selectedRewardType>>
fundingTypeDeps(f) == <<f.fundingType, f.selectedRewardType>>

\* useEffect(..., [selectedRewardType]): f holds the values of the render the effect
\* closes over, g the state its setters are applied to
rewardTypeEffect(f, g) ==
  LET cleared == [g EXCEPT !.entryFeeString = "",
                           !.rewardTokenAddress =
                              IF f.selectedRewardType = "USDC" THEN USDC_BASE_ADDRESS
                              ELSE IF f.selectedRewardType = "ETH" THEN ""
                              ELSE IF f.rewardTokenAddress = USDC_BASE_ADDRESS THEN ""
                              ELSE @,
                           !.rewardTokenIdsString =
                              IF f.selectedRewardType # "NFT" THEN "" ELSE @]
  IN IF f.selectedRewardType = "NFT"
     THEN [cleared EXCEPT !.fundingType = "host-funded",
                          !.isSponsoredGame = FALSE,
                          !.entryFeeString = "0"]
     ELSE cleared

\* useEffect(..., [fundingType, selectedRewardType])
fundingTypeEffect(f, g) ==
  IF f.fundingType = "participant-paid"
  THEN [g EXCEPT !.isSponsoredGame = FALSE,
                 !.selectedRewardType = IF f.selectedRewardType = "NFT" THEN "ETH" ELSE @]
  ELSE g

\* no effect is pending: both ran with the dependencies of the rendered state
FormSettled ==
  /\ form.rewardDeps = rewardTypeDeps(form)
  /\ form.fundingDeps = fundingTypeDeps(form)

\* React runs, in declaration order, the effects of the committed render whose
\* dependencies changed; their setters are batched into the next render. The effects
\* of a commit run before the next input event is handled, so the inputs below act
\* on settled forms.
FormEffects ==
  /\ ~FormSettled
  /\ LET f == form
         g1 == IF f.rewardDeps # rewardTypeDeps(f) THEN rewardTypeEffect(f, f) ELSE f
         g2 == IF f.fundingDeps # fundingTypeDeps(f) THEN fundingTypeEffect(f, g1) ELSE g1
     IN form' = [g2 EXCEPT !.rewardDeps = rewardTypeDeps(f),
                           !.fundingDeps = fundingTypeDeps(f)]
  /\ UNCHANGED <<pageVars, serverVars, fmt, modulesLoaded, env, frameVars, profileCalls>>

\* the Funding Type select
FundingTypeChange(newFundingType) ==
  /\ FormSettled
  /\ newFundingType # form.fundingType
  /\ form' = [form EXCEPT !.fundingType = newFundingType,
                          !.input = <<"fundingType", newFundingType>>]
  /\ UNCHANGED <<pageVars, serverVars, fmt, modulesLoaded, env, frameVars, profileCalls>>

\* the isSponsoredGame checkbox, rendered for host-funded only
SponsoredChange(checked) ==
  /\ FormSettled
  /\ form.fundingType = "host-funded"
  /\ checked # form.isSponsoredGame
  /\ form' = [form EXCEPT !.isSponsoredGame = checked,
                          !.input = <<"isSponsoredGame", checked>>]
  /\ UNCHANGED <<pageVars, serverVars, fmt, modulesLoaded, env, frameVars, profileCalls>>

\* the Reward Type select, disabled while the form shows participant-paid with NFT
RewardTypeChange(newRewardType) ==
  /\ FormSettled
  /\ ~(form.fundingType = "participant-paid" /\ form.selectedRewardType = "NFT")
  /\ newRewardType # form.selectedRewardType
  /\ form' = [form EXCEPT !.selectedRewardType = newRewardType,
                          !.input = <<"selectedRewardType", newRewardType>>]
  /\ UNCHANGED <<pageVars, serverVars, fmt, modulesLoaded, env, frameVars, profileCalls>>

\* the contract address input, rendered for ERC20 and NFT
RewardTokenAddressChange(value) ==
  /\ FormSettled
  /\ form.selectedRewardType \in {"ERC20", "NFT"}
  /\ value # form.rewardTokenAddress
  /\ form' = [form EXCEPT !.rewardTokenAddress = value,
                          !.input = <<"rewardTokenAddress", value>>]
  /\ UNCHANGED <<pageVars, serverVars, fmt, modulesLoaded, env, frameVars, profileCalls>>

\* the entry fee input, rendered for participant-paid drops other than NFT
EntryFeeChange(value) ==
  /\ FormSettled
  /\ form.fundingType = "participant-paid" /\ form.selectedRewardType # "NFT"
  /\ value # form.entryFeeString
  /\ form' = [form EXCEPT !.entryFeeString = value,
                          !.input = <<"entryFeeString", value>>]
  /\ UNCHANGED <<pageVars, serverVars, fmt, modulesLoaded, env, frameVars, profileCalls>>

\* the token ids input, rendered for NFT
RewardTokenIdsChange(value) ==
  /\ FormSettled
  /\ form.selectedRewardType = "NFT"
  /\ value # form.rewardTokenIdsString
  /\ form' = [form EXCEPT !.rewardTokenIdsString = value,
                          !.input = <<"rewardTokenIdsString", value>>]
  /\ UNCHANGED <<pageVars, serverVars, fmt, modulesLoaded, env, frameVars, profileCalls>>

InitForm ==
  /\ remote \in {r \in FormatDrops : r.rewardType = "ETH" /\ r.rewardToken = ZERO
                                      /\ r.rewardTokenIds = <<>> /\ r.isPaidEntry /\ r.entryFee = 25
                                      /\ r.rewardAmount = 0}
  /\ PageClosed
  /\ ServerIdle
  /\ apiKey = TRUE
  /\ directory = [a \in People |-> FidOf(a)]
  /\ FormatIdle

NextForm ==
  \/ FormEffects
  \/ \E v \in FundingTypes : FundingTypeChange(v)
  \/ \E v \in BOOLEAN : SponsoredChange(v)
  \/ \E v \in RewardTypes : RewardTypeChange(v)
  \/ \E v \in {"", USDC_BASE_ADDRESS, "0xNFT"} : RewardTokenAddressChange(v)
  \/ \E v \in {"", "0.01"} : EntryFeeChange(v)
  \/ \E v \in {"", "1,2"} : RewardTokenIdsChange(v)

SpecForm == InitForm /\ [][NextForm]_vars

\* C30: once the reward-type and funding-type effects have settled after the user chose
\* NFT in the Reward Type select, the form holds reward type NFT with funding type
\* host-funded; and no settled form combines reward type NFT with participant-paid
\* funding, or participant-paid funding with the sponsored flag.
C30_NftIsHostFunded ==
  FormSettled =>
    /\ form.input = <<"selectedRewardType", "NFT">>
         => form.selectedRewardType = "NFT" /\ form.fundingType = "host-funded"
    /\ ~(form.selectedRewardType = "NFT" /\ form.fundingType = "participant-paid")
    /\ ~(form.fundingType = "participant-paid" /\ form.isSponsoredGame)

====
